---- MODULE Spec2Model ----
(***************************************************************************)
(* The editor store of quiklens (lib/store.ts): the editing session, the   *)
(* undo/redo history, the debounced slider trigger and the asynchronous    *)
(* requests to the image-processing service.                               *)
(*                                                                         *)
(* The store is single-threaded and event-driven: every handler runs to    *)
(* its first await atomically, and the code after an await runs atomically *)
(* when the awaited response arrives.  Each such piece is one action.      *)
(*                                                                         *)
(* Slider values are numbers the store copies and never computes with;     *)
(* they are modelled as integers.  imageDisplayKeySuffix (a render key     *)
(* that is only ever incremented and never read by the store) is left out. *)
(***************************************************************************)
EXTENDS Integers, Sequences, FiniteSets, Bags, TLC

\* ------------------------------------------------------------------------
\* Program constants
\* ------------------------------------------------------------------------
MAX_HISTORY_LENGTH == 20
MIN_CROP_SIZE == 20

\* ------------------------------------------------------------------------
\* Bounds of the model
\* ------------------------------------------------------------------------
\* Handlers and callbacks run in one behaviour that starts with the store
\* as constructed.
MaxSteps == 6
\* Handlers and callbacks run in one behaviour that starts in the middle
\* of a long editing session.
MaxLongSteps == 4

\* The values a slider is set to.
SliderValues == {2}
\* The files the user opens: a plain image and a camera-RAW file.
Files == {"photo.jpg", "shot.cr2"}
\* The rectangles the crop drag handler publishes: two selections inside
\* the image, a selection narrower than MIN_CROP_SIZE near the right edge
\* of an 800-wide view, and a narrow selection at that edge.
UiRegions ==
  { [left |-> 100, top |-> 50, width |-> 400, height |-> 200],
    [left |-> 100, top |-> 100, width |-> 400, height |-> 200],
    [left |-> 785, top |-> 0, width |-> 15, height |-> 400],
    [left |-> 760, top |-> 0, width |-> 40, height |-> 400] }
\* The named effects without crop semantics.
NamedEffects == {"grayscale"}

\* null, for a file name or an error message, for dimensions, for a crop
\* region and for an image URL.
Null == "null"
NoDims == [none |-> "dimensions"]
NoCrop == [none |-> "region"]
NoUrl == [none |-> "url"]

Sliders ==
  {"brightness", "exposure", "temperature", "contrast",
   "saturation", "tint", "sharpness"}

defaultSliders ==
  [brightness |-> 1, exposure |-> 0, temperature |-> 0, contrast |-> 0,
   saturation |-> 1, tint |-> 0, sharpness |-> 0]

\* rawExtensions.test(newFile.name)
isRawFile(file) == file = "shot.cr2"

\* img.naturalWidth/naturalHeight of a plain image; for a RAW file the
\* preview service's originalWidth/Height and previewWidth/Height.
naturalDims(file) == [width |-> 800, height |-> 600]
originalDims(file) == [width |-> 2000, height |-> 1000]
previewDims(file) == [width |-> 1000, height |-> 500]

VARIABLES
  \* EditorState
  selectedFile, currentBaseImagePreviewUrl, currentBaseImageDimensions,
  trueOriginalImageDimensions, isLoading, error, sliders, isCropping,
  currentAspectRatio, appliedCropRegionToOriginal, uiCropRegion,
  history, currentHistoryIndex,
  \* the debounce closure's timeoutId: TRUE while a timer is pending
  timeoutId,
  \* the fetches to /api/image/process awaiting their response
  inflight,
  \* the file loads (img.onload / raw-preview fetch) awaiting completion
  pendingLoads,
  \* counters: requests issued, setSelectedFile calls, handlers run
  issued, loads, steps,
  \* observation: what the last handler did, the slider changes the pending
  \* timer coalesces (with the number of setSelectedFile calls made when it
  \* was last armed), the push/undo/redo tracker
  lastEvent, burst, pur,
  \* the object URLs passed to URL.revokeObjectURL so far, each as often as
  \* it was passed
  revoked,
  \* ImageDisplayArea: the natural size of imageRef.current (NoDims while it
  \* is null) and containerDims
  imageRef, containerDims,
  \* useImageZoomPan
  zoomLevel, panOffset, isPanning, lastPanPoint, isSpacebarDown,
  \* useImageCropHandler
  activeDragHandle, dragStartCoords, initialCropOnDragStart

sessionVars ==
  <<selectedFile, currentBaseImagePreviewUrl, currentBaseImageDimensions,
    trueOriginalImageDimensions, isLoading, error, sliders, isCropping,
    currentAspectRatio, appliedCropRegionToOriginal, uiCropRegion>>
historyVars == <<history, currentHistoryIndex>>
asyncVars == <<timeoutId, inflight, pendingLoads>>
countVars == <<issued, loads>>
obsVars == <<lastEvent, burst, pur>>
zoomPanVars == <<zoomLevel, panOffset, isPanning, lastPanPoint, isSpacebarDown>>
cropHandlerVars == <<activeDragHandle, dragStartCoords, initialCropOnDragStart>>
viewVars == <<imageRef, containerDims, zoomPanVars, cropHandlerVars>>
vars ==
  <<sessionVars, historyVars, asyncVars, countVars, obsVars, steps, revoked,
    viewVars>>

\* ------------------------------------------------------------------------
\* Helpers
\* ------------------------------------------------------------------------
NoBurst == [n |-> 0, suppressed |-> TRUE, loads |-> 0]
NoPur == [phase |-> 0]

\* history[i] of the code (0-based)
At(h, i) == h[i + 1]

\* h.slice(0, n)
Slice0(h, n) == SubSeq(h, 1, n)

\* h.slice(from)
SliceFrom(h, from) == SubSeq(h, from + 1, Len(h))

canUndo == currentHistoryIndex > 0
canRedo == currentHistoryIndex < Len(history) - 1

\* The observation of a push / undo / redo sequence: a push starts it, an
\* undo call right after the push and a redo call right after that undo
\* advance it, any other change of the history ends it.
PurAfterPush(entry, h, i) ==
  [phase |-> 1, entry |-> entry, len |-> Len(h), idx |-> i]
PurAfterUndo == IF pur.phase = 1 THEN [pur EXCEPT !.phase = 2] ELSE NoPur
PurAfterRedo == IF pur.phase = 2 THEN [pur EXCEPT !.phase = 3] ELSE NoPur

_getCurrentUserParamsSnapshot ==
  [sliders |-> sliders, crop |-> appliedCropRegionToOriginal]

initialHistoryEntry(dims) ==
  [sliders |-> defaultSliders, crop |-> NoCrop,
   sourceImageDimensionsForNextStep |-> dims,
   appliedCropForThisState |-> NoCrop]

\* _addProcessedStateToHistory without the slice(0, currentHistoryIndex + 1):
\* the entry is appended to the whole history.
addWithoutTruncating(h, idx, processedParams, baseDims) ==
  LET historyEntry ==
        [sliders |-> processedParams.sliders, crop |-> processedParams.crop,
         sourceImageDimensionsForNextStep |-> baseDims,
         appliedCropForThisState |-> processedParams.crop]
      updatedHistory == Append(h, historyEntry)
      finalHistory ==
        IF Len(updatedHistory) > MAX_HISTORY_LENGTH
        THEN SliceFrom(updatedHistory, Len(updatedHistory) - MAX_HISTORY_LENGTH)
        ELSE updatedHistory
  IN  <<finalHistory, Len(finalHistory) - 1>>

\* _addProcessedStateToHistory without the check of MAX_HISTORY_LENGTH.
addWithoutTrimming(h, idx, processedParams, baseDims) ==
  LET newHistoryBase == Slice0(h, idx + 1)
      historyEntry ==
        [sliders |-> processedParams.sliders, crop |-> processedParams.crop,
         sourceImageDimensionsForNextStep |-> baseDims,
         appliedCropForThisState |-> processedParams.crop]
      updatedHistory == Append(newHistoryBase, historyEntry)
  IN  <<updatedHistory, Len(updatedHistory) - 1>>

\* _addProcessedStateToHistory, as the new <<history, currentHistoryIndex>>;
\* baseDims is state.currentBaseImageDimensions at the time of the call.
_addProcessedStateToHistory(h, idx, processedParams, baseDims) ==
  LET newHistoryBase == Slice0(h, idx + 1)
      historyEntry ==
        [sliders |-> processedParams.sliders, crop |-> processedParams.crop,
         sourceImageDimensionsForNextStep |-> baseDims,
         appliedCropForThisState |-> processedParams.crop]
      updatedHistory == Append(newHistoryBase, historyEntry)
      finalHistory ==
        IF Len(updatedHistory) > MAX_HISTORY_LENGTH
        THEN SliceFrom(updatedHistory, Len(updatedHistory) - MAX_HISTORY_LENGTH)
        ELSE updatedHistory
  IN  <<finalHistory, Len(finalHistory) - 1>>

\* The request a call of _executeApiProcessing sends, with the caller that
\* awaits it, for the debounced trigger the number of slider changes its
\* timer coalesced, and appliedCropRegionToOriginal and
\* currentBaseImageDimensions as they were when the calling handler started.
NewRequest(paramsForAPI, effectForAPI, shouldAddToHistory, caller, coalesced) ==
  [id |-> issued + 1, params |-> paramsForAPI, effect |-> effectForAPI,
   add |-> shouldAddToHistory, url |-> currentBaseImagePreviewUrl,
   file |-> selectedFile, caller |-> caller, coalesced |-> coalesced,
   cropBefore |-> appliedCropRegionToOriginal,
   baseBefore |-> currentBaseImageDimensions]

\* _executeApiProcessing up to its await of fetch.  It reads selectedFile,
\* which none of its callers changes before calling it.
_executeApiProcessing(paramsForAPI, effectForAPI, shouldAddToHistory, caller, coalesced) ==
  IF selectedFile = Null
  THEN /\ isLoading' = FALSE
       /\ UNCHANGED <<error, inflight, issued>>
  ELSE /\ isLoading' = TRUE
       /\ error' = Null
       /\ inflight' = inflight \cup
            {NewRequest(paramsForAPI, effectForAPI, shouldAddToHistory, caller, coalesced)}
       /\ issued' = issued + 1


\* What URL.createObjectURL returned: the url of a plain image's load or of
\* a response blob.  The preview of a RAW file is a data url.
isObjectUrl(url) == url # NoUrl /\ url.src \in {"load", "response"}

\* URL.revokeObjectURL(url) behind the callers' test that url is set
revokeObjectURL(url) ==
  IF isObjectUrl(url) THEN revoked (+) SetToBag({url}) ELSE revoked

\* ------------------------------------------------------------------------
\* Numbers of the viewport and of the crop handler
\* ------------------------------------------------------------------------
\* The code's doubles are modelled as exact fractions [n, d] in lowest terms
\* with d > 0.
RECURSIVE GCD(_, _)
GCD(a, b) == IF b = 0 THEN a ELSE GCD(b, a % b)

Abs(i) == IF i < 0 THEN 0 - i ELSE i

Rat(num, den) ==
  LET sign == IF den < 0 THEN 0 - 1 ELSE 1
      g == GCD(Abs(num), Abs(den))
  IN  [n |-> (sign * num) \div g, d |-> (sign * den) \div g]

Q(i) == [n |-> i, d |-> 1]
QAdd(a, b) == Rat(a.n * b.d + b.n * a.d, a.d * b.d)
QSub(a, b) == Rat(a.n * b.d - b.n * a.d, a.d * b.d)
QMul(a, b) == Rat(a.n * b.n, a.d * b.d)
QDiv(a, b) == Rat(a.n * b.d, a.d * b.n)
QLt(a, b) == a.n * b.d < b.n * a.d
QLe(a, b) == a.n * b.d <= b.n * a.d
QMax(a, b) == IF QLt(a, b) THEN b ELSE a
QMin(a, b) == IF QLt(b, a) THEN b ELSE a
QAbs(a) == [n |-> Abs(a.n), d |-> a.d]

\* Math.round: the nearest integer, a tie rounded up
QRound(a) == (2 * a.n + a.d) \div (2 * a.d)

MIN_ZOOM == Rat(1, 10)
MAX_ZOOM == Q(10)
ZOOM_SENSITIVITY == Rat(1, 1000)
HANDLE_SIZE == 8
MIN_CROP_SIZE_ON_CANVAS == 10

NoPoint == [none |-> "point"]
Origin == [x |-> Q(0), y |-> Q(0)]

\* The size ResizeObserver reports for the container of the canvas
DefaultContainer == [width |-> 800, height |-> 600]

\* calculateAndSetInitialView fitting every image to the container's width
initialViewFitWidth(img, container) ==
  LET newZoom == Rat(container.width, img.width)
      renderWidth == QMul(Q(img.width), newZoom)
      renderHeight == QMul(Q(img.height), newZoom)
  IN  [zoom |-> newZoom,
       pan |-> [x |-> QDiv(QSub(Q(container.width), renderWidth), Q(2)),
                y |-> QDiv(QSub(Q(container.height), renderHeight), Q(2))]]

\* What calculateAndSetInitialView computes for an image in a container
initialView(img, container) ==
  LET newZoom == IF img.width * container.height > container.width * img.height
                 THEN Rat(container.width, img.width)
                 ELSE Rat(container.height, img.height)
      renderWidth == QMul(Q(img.width), newZoom)
      renderHeight == QMul(Q(img.height), newZoom)
  IN  [zoom |-> newZoom,
       pan |-> [x |-> QDiv(QSub(Q(container.width), renderWidth), Q(2)),
                y |-> QDiv(QSub(Q(container.height), renderHeight), Q(2))]]

\* The two hooks as useState initialises them
hooksAtDefaults ==
  /\ zoomLevel = Q(1)
  /\ panOffset = Origin
  /\ isPanning = FALSE
  /\ lastPanPoint = NoPoint
  /\ isSpacebarDown = FALSE
  /\ activeDragHandle = Null
  /\ dragStartCoords = NoPoint
  /\ initialCropOnDragStart = NoCrop

\* ------------------------------------------------------------------------
\* Init: the store as create() builds it
\* ------------------------------------------------------------------------
Init ==
  /\ selectedFile = Null
  /\ currentBaseImagePreviewUrl = NoUrl
  /\ currentBaseImageDimensions = NoDims
  /\ trueOriginalImageDimensions = NoDims
  /\ isLoading = FALSE
  /\ error = Null
  /\ sliders = defaultSliders
  /\ isCropping = FALSE
  /\ currentAspectRatio = "freeform"
  /\ appliedCropRegionToOriginal = NoCrop
  /\ uiCropRegion = NoCrop
  /\ history = <<>>
  /\ currentHistoryIndex = -1
  /\ timeoutId = FALSE
  /\ inflight = {}
  /\ pendingLoads = {}
  /\ issued = 0
  /\ loads = 0
  /\ steps = 0
  /\ lastEvent = "init"
  /\ revoked = EmptyBag
  /\ imageRef = NoDims
  /\ containerDims = DefaultContainer
  /\ hooksAtDefaults
  /\ burst = NoBurst
  /\ pur = NoPur

\* ------------------------------------------------------------------------
\* File loading
\* ------------------------------------------------------------------------
\* setSelectedFile(file) with the synchronous part of the
\* resetApplicationState(file || undefined) it calls: the session and the
\* history are cleared; a file starts its asynchronous load (img.onload or
\* the raw-preview fetch), null seeds the history at once.
setSelectedFile(file) ==
  /\ loads' = loads + 1
  /\ revoked' = revokeObjectURL(currentBaseImagePreviewUrl)
  /\ UNCHANGED viewVars
  /\ selectedFile' = file
  /\ currentBaseImagePreviewUrl' = NoUrl
  /\ currentBaseImageDimensions' = NoDims
  /\ trueOriginalImageDimensions' = NoDims
  /\ error' = Null
  /\ sliders' = defaultSliders
  /\ isCropping' = FALSE
  /\ currentAspectRatio' = "freeform"
  /\ appliedCropRegionToOriginal' = NoCrop
  /\ uiCropRegion' = NoCrop
  /\ IF file # Null
     THEN /\ isLoading' = TRUE
          /\ history' = <<>>
          /\ currentHistoryIndex' = -1
          /\ pendingLoads' = pendingLoads \cup {[id |-> loads + 1, file |-> file]}
     ELSE /\ isLoading' = FALSE
          /\ history' = <<initialHistoryEntry(NoDims)>>
          /\ currentHistoryIndex' = 0
          /\ UNCHANGED pendingLoads
  /\ lastEvent' = "other"
  /\ pur' = NoPur
  /\ UNCHANGED <<timeoutId, inflight, issued, burst>>

\* img.onload of a plain image
imgOnload(l) ==
  /\ ~isRawFile(l.file)
  /\ pendingLoads' = pendingLoads \ {l}
  /\ trueOriginalImageDimensions' = naturalDims(l.file)
  /\ currentBaseImageDimensions' = naturalDims(l.file)
  /\ currentBaseImagePreviewUrl' = [src |-> "load", n |-> l.id]
  /\ history' = <<initialHistoryEntry(naturalDims(l.file))>>
  /\ currentHistoryIndex' = 0
  /\ isLoading' = FALSE
  /\ error' = Null
  /\ lastEvent' = "other"
  /\ pur' = NoPur
  /\ UNCHANGED <<selectedFile, sliders, isCropping, currentAspectRatio,
                 appliedCropRegionToOriginal, uiCropRegion,
                 timeoutId, inflight, countVars, revoked, viewVars, burst>>

\* img.onerror of a plain image
imgOnerror(l) ==
  /\ ~isRawFile(l.file)
  /\ pendingLoads' = pendingLoads \ {l}
  /\ error' = "Failed to load image details."
  /\ isLoading' = FALSE
  /\ selectedFile' = Null
  /\ currentBaseImagePreviewUrl' = NoUrl
  /\ trueOriginalImageDimensions' = NoDims
  /\ currentBaseImageDimensions' = NoDims
  /\ lastEvent' = "other"
  /\ UNCHANGED <<sliders, isCropping, currentAspectRatio,
                 appliedCropRegionToOriginal, uiCropRegion, historyVars,
                 timeoutId, inflight, countVars, revoked, viewVars, burst, pur>>

\* the raw-preview fetch answers with a valid preview
rawPreviewOk(l) ==
  /\ isRawFile(l.file)
  /\ pendingLoads' = pendingLoads \ {l}
  /\ trueOriginalImageDimensions' = originalDims(l.file)
  /\ currentBaseImageDimensions' = previewDims(l.file)
  /\ currentBaseImagePreviewUrl' = [src |-> "data", n |-> l.id]
  /\ history' = <<initialHistoryEntry(previewDims(l.file))>>
  /\ currentHistoryIndex' = 0
  /\ isLoading' = FALSE
  /\ error' = Null
  /\ lastEvent' = "other"
  /\ pur' = NoPur
  /\ UNCHANGED <<selectedFile, sliders, isCropping, currentAspectRatio,
                 appliedCropRegionToOriginal, uiCropRegion,
                 timeoutId, inflight, countVars, revoked, viewVars, burst>>

\* The catch block of the RAW branch clearing selectedFile as img.onerror
\* does.
rawPreviewFailClearsFile(l) ==
  /\ isRawFile(l.file)
  /\ pendingLoads' = pendingLoads \ {l}
  /\ error' = "Could not load RAW file preview"
  /\ isLoading' = FALSE
  /\ selectedFile' = Null
  /\ currentBaseImagePreviewUrl' = NoUrl
  /\ currentBaseImageDimensions' = NoDims
  /\ trueOriginalImageDimensions' = NoDims
  /\ lastEvent' = "other"
  /\ UNCHANGED <<sliders, isCropping, currentAspectRatio,
                 appliedCropRegionToOriginal, uiCropRegion, historyVars,
                 timeoutId, inflight, countVars, revoked, viewVars, burst, pur>>

\* the raw-preview fetch fails, or answers with no or an invalid preview
rawPreviewFail(l) ==
  /\ isRawFile(l.file)
  /\ pendingLoads' = pendingLoads \ {l}
  /\ error' = "Could not load RAW file preview"
  /\ isLoading' = FALSE
  /\ currentBaseImagePreviewUrl' = NoUrl
  /\ currentBaseImageDimensions' = NoDims
  /\ trueOriginalImageDimensions' = NoDims
  /\ lastEvent' = "other"
  /\ UNCHANGED <<selectedFile, sliders, isCropping, currentAspectRatio,
                 appliedCropRegionToOriginal, uiCropRegion, historyVars,
                 timeoutId, inflight, countVars, revoked, viewVars, burst, pur>>

\* ------------------------------------------------------------------------
\* Sliders and the debounced trigger
\* ------------------------------------------------------------------------
\* A slider setter that calls _executeApiProcessing itself instead of the
\* debounced function.
setSliderImmediate(name, value) ==
  /\ sliders' = [sliders EXCEPT ![name] = value]
  /\ _executeApiProcessing([sliders |-> sliders', crop |-> appliedCropRegionToOriginal],
                           "applyAll", TRUE, "debounce", 1)
  /\ lastEvent' = "setSlider"
  /\ UNCHANGED <<selectedFile, currentBaseImagePreviewUrl,
                 currentBaseImageDimensions, trueOriginalImageDimensions,
                 isCropping, currentAspectRatio,
                 appliedCropRegionToOriginal, uiCropRegion, historyVars,
                 timeoutId, pendingLoads, loads, revoked, viewVars, burst, pur>>

\* setBrightness .. setSharpness: set the slider, then call the debounced
\* function, which clears a pending timer and starts a new one.
setSlider(name, value) ==
  /\ sliders' = [sliders EXCEPT ![name] = value]
  /\ timeoutId' = TRUE
  /\ burst' = [n |-> (IF timeoutId THEN burst.n ELSE 0) + 1,
               suppressed |-> (timeoutId => burst.suppressed)
                               /\ (isCropping \/ selectedFile = Null),
               loads |-> loads]
  /\ lastEvent' = "setSlider"
  /\ UNCHANGED <<selectedFile, currentBaseImagePreviewUrl,
                 currentBaseImageDimensions, trueOriginalImageDimensions,
                 isLoading, error, isCropping, currentAspectRatio,
                 appliedCropRegionToOriginal, uiCropRegion, historyVars,
                 inflight, pendingLoads, issued, loads, revoked, viewVars, pur>>

\* The debounced function without its test of isCropping.
debounceTimeoutUnguarded ==
  /\ timeoutId
  /\ timeoutId' = FALSE
  /\ burst' = NoBurst
  /\ IF selectedFile = Null
     THEN /\ lastEvent' = "timeoutSuppressed"
          /\ UNCHANGED <<isLoading, error, inflight, issued>>
     ELSE /\ _executeApiProcessing(_getCurrentUserParamsSnapshot, "applyAll", TRUE, "debounce", burst.n)
          /\ lastEvent' = "timeout"
  /\ UNCHANGED <<selectedFile, currentBaseImagePreviewUrl,
                 currentBaseImageDimensions, trueOriginalImageDimensions,
                 sliders, isCropping, currentAspectRatio,
                 appliedCropRegionToOriginal, uiCropRegion, historyVars,
                 pendingLoads, loads, revoked, viewVars, pur>>

\* The timer of debounce() fires: timeoutId = null, then the function of
\* _debouncedProcessSliderChanges runs.
debounceTimeout ==
  /\ timeoutId
  /\ timeoutId' = FALSE
  /\ burst' = NoBurst
  /\ IF isCropping \/ selectedFile = Null
     THEN /\ lastEvent' = "timeoutSuppressed"
          /\ UNCHANGED <<isLoading, error, inflight, issued>>
     ELSE /\ _executeApiProcessing(_getCurrentUserParamsSnapshot, "applyAll", TRUE, "debounce", burst.n)
          /\ lastEvent' = "timeout"
  /\ UNCHANGED <<selectedFile, currentBaseImagePreviewUrl,
                 currentBaseImageDimensions, trueOriginalImageDimensions,
                 sliders, isCropping, currentAspectRatio,
                 appliedCropRegionToOriginal, uiCropRegion, historyVars,
                 pendingLoads, loads, revoked, viewVars, pur>>

\* ------------------------------------------------------------------------
\* Crop mode
\* ------------------------------------------------------------------------
Max(a, b) == IF a >= b THEN a ELSE b
Min(a, b) == IF a <= b THEN a ELSE b

\* Math.round(num / den) for den > 0: the nearest integer, a tie rounded up.
\* The quotient is taken exactly (the code's doubles are exact on the
\* image sizes used here).
Round(num, den) == (2 * num + den) \div (2 * den)

toggleCropMode ==
  /\ IF selectedFile = Null
     THEN UNCHANGED <<isCropping, uiCropRegion, currentAspectRatio>>
     ELSE /\ isCropping' = ~isCropping
          /\ uiCropRegion' =
               IF ~isCropping /\ currentBaseImageDimensions # NoDims
               THEN [left |-> 0, top |-> 0,
                     width |-> currentBaseImageDimensions.width,
                     height |-> currentBaseImageDimensions.height]
               ELSE NoCrop
          /\ currentAspectRatio' = IF ~isCropping THEN "freeform" ELSE currentAspectRatio
  /\ lastEvent' = "other"
  /\ UNCHANGED <<selectedFile, currentBaseImagePreviewUrl,
                 currentBaseImageDimensions, trueOriginalImageDimensions,
                 isLoading, error, sliders, appliedCropRegionToOriginal,
                 historyVars, asyncVars, countVars, revoked, viewVars, burst, pur>>

\* setUiCropRegion(region), called by the crop drag handler, which returns
\* early unless crop mode is on and a region and the view dimensions exist,
\* and which clamps the region it publishes to the view dimensions.
setUiCropRegion(region) ==
  /\ isCropping
  /\ uiCropRegion # NoCrop
  /\ currentBaseImageDimensions # NoDims
  /\ region.left + region.width <= currentBaseImageDimensions.width
  /\ region.top + region.height <= currentBaseImageDimensions.height
  /\ uiCropRegion' = region
  /\ lastEvent' = "other"
  /\ UNCHANGED <<selectedFile, currentBaseImagePreviewUrl,
                 currentBaseImageDimensions, trueOriginalImageDimensions,
                 isLoading, error, sliders, isCropping, currentAspectRatio,
                 appliedCropRegionToOriginal,
                 historyVars, asyncVars, countVars, revoked, viewVars, burst, pur>>

\* applyCrop: validatedUiCrop
validatedUiCrop(ui, base) ==
  LET left == Max(0, ui.left)
      top == Max(0, ui.top)
  IN  [left |-> left, top |-> top,
       width |-> Min(Max(MIN_CROP_SIZE, ui.width), base.width - left),
       height |-> Min(Max(MIN_CROP_SIZE, ui.height), base.height - top)]

\* The first crop sent as selected on the preview, without the scaling to
\* the true original.
composedCropUnscaled(v, base, trueOriginal, applied) ==
  IF applied # NoCrop
  THEN [left |-> Round(applied.left * base.width + v.left * applied.width, base.width),
        top |-> Round(applied.top * base.height + v.top * applied.height, base.height),
        width |-> Round(v.width * applied.width, base.width),
        height |-> Round(v.height * applied.height, base.height)]
  ELSE v

\* The re-crop scaled to the first crop but not translated by its left and
\* top.
composedCropNoTranslate(v, base, trueOriginal, applied) ==
  IF applied # NoCrop
  THEN [left |-> Round(v.left * applied.width, base.width),
        top |-> Round(v.top * applied.height, base.height),
        width |-> Round(v.width * applied.width, base.width),
        height |-> Round(v.height * applied.height, base.height)]
  ELSE [left |-> Round(v.left * trueOriginal.width, base.width),
        top |-> Round(v.top * trueOriginal.height, base.height),
        width |-> Round(v.width * trueOriginal.width, base.width),
        height |-> Round(v.height * trueOriginal.height, base.height)]

\* applyCrop: finalCropForApi before the final clamping
composedCrop(v, base, trueOriginal, applied) ==
  IF applied # NoCrop
  THEN [left |-> Round(applied.left * base.width + v.left * applied.width, base.width),
        top |-> Round(applied.top * base.height + v.top * applied.height, base.height),
        width |-> Round(v.width * applied.width, base.width),
        height |-> Round(v.height * applied.height, base.height)]
  ELSE [left |-> Round(v.left * trueOriginal.width, base.width),
        top |-> Round(v.top * trueOriginal.height, base.height),
        width |-> Round(v.width * trueOriginal.width, base.width),
        height |-> Round(v.height * trueOriginal.height, base.height)]

\* applyCrop: the final clamping to the true original dimensions
clampedCrop(c, trueOriginal) ==
  LET left == Max(0, c.left)
      top == Max(0, c.top)
  IN  [left |-> left, top |-> top,
       width |-> Max(MIN_CROP_SIZE, Min(c.width, trueOriginal.width - left)),
       height |-> Max(MIN_CROP_SIZE, Min(c.height, trueOriginal.height - top))]

\* finalCropForApi of applyCrop
finalCropForApi ==
  clampedCrop(
    composedCrop(validatedUiCrop(uiCropRegion, currentBaseImageDimensions),
                 currentBaseImageDimensions, trueOriginalImageDimensions,
                 appliedCropRegionToOriginal),
    trueOriginalImageDimensions)

\* applyCrop without its test of validatedUiCrop against MIN_CROP_SIZE.
applyCropErrorNoMinCheck ==
  IF \/ uiCropRegion = NoCrop
     \/ currentBaseImageDimensions = NoDims
     \/ trueOriginalImageDimensions = NoDims
     \/ selectedFile = Null
  THEN "Cannot apply crop: required image data for scaling/processing is missing."
  ELSE IF finalCropForApi.width < MIN_CROP_SIZE \/ finalCropForApi.height < MIN_CROP_SIZE
  THEN "Final calculated crop dimensions for the original image are too small."
  ELSE Null

\* The error applyCrop sets instead of sending a request, or Null.
applyCropError ==
  IF \/ uiCropRegion = NoCrop
     \/ currentBaseImageDimensions = NoDims
     \/ trueOriginalImageDimensions = NoDims
     \/ selectedFile = Null
  THEN "Cannot apply crop: required image data for scaling/processing is missing."
  ELSE IF LET v == validatedUiCrop(uiCropRegion, currentBaseImageDimensions)
          IN  v.width < MIN_CROP_SIZE \/ v.height < MIN_CROP_SIZE
  THEN "Crop dimensions selected on the preview are too small."
  ELSE IF finalCropForApi.width < MIN_CROP_SIZE \/ finalCropForApi.height < MIN_CROP_SIZE
  THEN "Final calculated crop dimensions for the original image are too small."
  ELSE Null

\* applyCrop up to its await of _executeApiProcessing
applyCrop ==
  /\ IF applyCropError # Null
     THEN /\ error' = applyCropError
          /\ lastEvent' = "applyCropError"
          /\ UNCHANGED <<appliedCropRegionToOriginal, isLoading, inflight, issued>>
     ELSE /\ appliedCropRegionToOriginal' = finalCropForApi
          /\ _executeApiProcessing([sliders |-> sliders, crop |-> finalCropForApi],
                                   "crop", TRUE, "applyCrop", 0)
          /\ lastEvent' = "applyCrop"
  /\ UNCHANGED <<selectedFile, currentBaseImagePreviewUrl,
                 currentBaseImageDimensions, trueOriginalImageDimensions,
                 sliders, isCropping, currentAspectRatio, uiCropRegion,
                 historyVars, timeoutId, pendingLoads, loads, revoked, viewVars, burst, pur>>

\* ------------------------------------------------------------------------
\* Named effects, undo and redo
\* ------------------------------------------------------------------------
\* applyNamedEffect sending the sliders without the committed crop.
applyNamedEffectDropsCrop(effect) ==
  /\ _executeApiProcessing([sliders |-> sliders, crop |-> NoCrop], effect, TRUE,
                           "applyNamedEffect", 0)
  /\ lastEvent' = "applyNamedEffect"
  /\ UNCHANGED <<selectedFile, currentBaseImagePreviewUrl,
                 currentBaseImageDimensions, trueOriginalImageDimensions,
                 sliders, isCropping, currentAspectRatio,
                 appliedCropRegionToOriginal, uiCropRegion, historyVars,
                 timeoutId, pendingLoads, loads, revoked, viewVars, burst, pur>>

applyNamedEffect(effect) ==
  /\ _executeApiProcessing(_getCurrentUserParamsSnapshot, effect, TRUE, "applyNamedEffect", 0)
  /\ lastEvent' = "applyNamedEffect"
  /\ UNCHANGED <<selectedFile, currentBaseImagePreviewUrl,
                 currentBaseImageDimensions, trueOriginalImageDimensions,
                 sliders, isCropping, currentAspectRatio,
                 appliedCropRegionToOriginal, uiCropRegion, historyVars,
                 timeoutId, pendingLoads, loads, revoked, viewVars, burst, pur>>

\* undo/redo storing an index one below the entry they restore.
restoreOffByOne(op, newIndex) ==
  LET paramsToRestore == At(history, newIndex)
      replay == [sliders |-> paramsToRestore.sliders, crop |-> paramsToRestore.crop]
  IN  /\ sliders' = paramsToRestore.sliders
      /\ appliedCropRegionToOriginal' = paramsToRestore.crop
      /\ isCropping' = FALSE
      /\ uiCropRegion' = NoCrop
      /\ currentHistoryIndex' = newIndex - 1
      /\ _executeApiProcessing(replay, "applyAll", FALSE, op, 0)
      /\ lastEvent' = op
      /\ UNCHANGED <<selectedFile, currentBaseImagePreviewUrl,
                     currentBaseImageDimensions, trueOriginalImageDimensions,
                     currentAspectRatio, history>>

\* undo/redo replaying with shouldAddToHistory = true.
restoreAndPush(op, newIndex) ==
  LET paramsToRestore == At(history, newIndex)
      replay == [sliders |-> paramsToRestore.sliders, crop |-> paramsToRestore.crop]
  IN  /\ sliders' = paramsToRestore.sliders
      /\ appliedCropRegionToOriginal' = paramsToRestore.crop
      /\ isCropping' = FALSE
      /\ uiCropRegion' = NoCrop
      /\ currentHistoryIndex' = newIndex
      /\ _executeApiProcessing(replay, "applyAll", TRUE, op, 0)
      /\ lastEvent' = op
      /\ UNCHANGED <<selectedFile, currentBaseImagePreviewUrl,
                     currentBaseImageDimensions, trueOriginalImageDimensions,
                     currentAspectRatio, history>>

\* _applyStateFromHistory without appliedCropRegionToOriginal.
restoreSlidersOnly(op, newIndex) ==
  LET paramsToRestore == At(history, newIndex)
      replay == [sliders |-> paramsToRestore.sliders, crop |-> paramsToRestore.crop]
  IN  /\ sliders' = paramsToRestore.sliders
      /\ isCropping' = FALSE
      /\ uiCropRegion' = NoCrop
      /\ currentHistoryIndex' = newIndex
      /\ _executeApiProcessing(replay, "applyAll", FALSE, op, 0)
      /\ lastEvent' = op
      /\ UNCHANGED <<selectedFile, currentBaseImagePreviewUrl,
                     currentBaseImageDimensions, trueOriginalImageDimensions,
                     currentAspectRatio, appliedCropRegionToOriginal, history>>

\* _applyStateFromHistory(params) followed by set({currentHistoryIndex})
\* and the replay request, shared by undo and redo.
restoreFromHistory(op, newIndex) ==
  LET paramsToRestore == At(history, newIndex)
      replay == [sliders |-> paramsToRestore.sliders, crop |-> paramsToRestore.crop]
  IN  /\ sliders' = paramsToRestore.sliders
      /\ appliedCropRegionToOriginal' = paramsToRestore.crop
      /\ isCropping' = FALSE
      /\ uiCropRegion' = NoCrop
      /\ currentHistoryIndex' = newIndex
      /\ _executeApiProcessing(replay, "applyAll", FALSE, op, 0)
      /\ lastEvent' = op
      /\ UNCHANGED <<selectedFile, currentBaseImagePreviewUrl,
                     currentBaseImageDimensions, trueOriginalImageDimensions,
                     currentAspectRatio, history>>

\* undo stepping back two entries where it can.
undoTwice ==
  /\ IF currentHistoryIndex > 1
     THEN restoreFromHistory("undo", currentHistoryIndex - 2)
     ELSE IF currentHistoryIndex > 0
     THEN restoreFromHistory("undo", currentHistoryIndex - 1)
     ELSE /\ lastEvent' = "undoNoop"
          /\ UNCHANGED <<sessionVars, historyVars, inflight, issued>>
  /\ pur' = PurAfterUndo
  /\ UNCHANGED <<timeoutId, pendingLoads, loads, revoked, viewVars, burst>>

\* undo with the test currentHistoryIndex >= 0: on the first entry it
\* restores and replays that entry.
undoAtZero ==
  /\ IF currentHistoryIndex >= 0
     THEN restoreFromHistory("undo",
            IF currentHistoryIndex > 0 THEN currentHistoryIndex - 1 ELSE 0)
     ELSE /\ lastEvent' = "undoNoop"
          /\ UNCHANGED <<sessionVars, historyVars, inflight, issued>>
  /\ pur' = PurAfterUndo
  /\ UNCHANGED <<timeoutId, pendingLoads, loads, revoked, viewVars, burst>>

undo ==
  /\ IF currentHistoryIndex > 0
     THEN restoreFromHistory("undo", currentHistoryIndex - 1)
     ELSE /\ lastEvent' = "undoNoop"
          /\ UNCHANGED <<sessionVars, historyVars, inflight, issued>>
  /\ pur' = PurAfterUndo
  /\ UNCHANGED <<timeoutId, pendingLoads, loads, revoked, viewVars, burst>>

redo ==
  /\ IF currentHistoryIndex < Len(history) - 1
     THEN restoreFromHistory("redo", currentHistoryIndex + 1)
     ELSE /\ lastEvent' = "redoNoop"
          /\ UNCHANGED <<sessionVars, historyVars, inflight, issued>>
  /\ pur' = PurAfterRedo
  /\ UNCHANGED <<timeoutId, pendingLoads, loads, revoked, viewVars, burst>>

\* ------------------------------------------------------------------------
\* Responses of the processing service
\* ------------------------------------------------------------------------
\* newBaseDimensions of _executeApiProcessing
newBaseDimensions(r) ==
  IF r.params.crop # NoCrop /\ r.params.crop.width > 0 /\ r.params.crop.height > 0
  THEN [width |-> r.params.crop.width, height |-> r.params.crop.height]
  ELSE IF /\ appliedCropRegionToOriginal # NoCrop
          /\ r.effect = "applyAll"
          /\ r.params.crop = NoCrop
  THEN [width |-> appliedCropRegionToOriginal.width,
        height |-> appliedCropRegionToOriginal.height]
  ELSE trueOriginalImageDimensions

\* What applyCrop does after its await, whatever the outcome.
afterAwait(r) ==
  IF r.caller = "applyCrop"
  THEN isCropping' = FALSE /\ uiCropRegion' = NoCrop
  ELSE UNCHANGED <<isCropping, uiCropRegion>>

\* _executeApiProcessing recording in the entry the dimensions of the image
\* that was displayed before the response.
responseOkRecordsOldBase(r) ==
  /\ inflight' = inflight \ {r}
  /\ currentBaseImagePreviewUrl' = [src |-> "response", n |-> r.id]
  /\ currentBaseImageDimensions' = newBaseDimensions(r)
  /\ IF r.add
     THEN LET pushed == _addProcessedStateToHistory(history, currentHistoryIndex,
                                                    r.params, currentBaseImageDimensions)
          IN  /\ history' = pushed[1]
              /\ currentHistoryIndex' = pushed[2]
              /\ pur' = PurAfterPush(r.params, pushed[1], pushed[2])
     ELSE UNCHANGED <<historyVars, pur>>
  /\ isLoading' = FALSE
  /\ afterAwait(r)
  /\ revoked' = revokeObjectURL(r.url)
  /\ UNCHANGED viewVars
  /\ lastEvent' = IF r.add THEN "push" ELSE "replayed"
  /\ UNCHANGED <<selectedFile, trueOriginalImageDimensions, error, sliders,
                 currentAspectRatio, appliedCropRegionToOriginal,
                 timeoutId, pendingLoads, countVars, burst>>

\* The fetch of request r answers ok: the rest of _executeApiProcessing's
\* try block, its finally, and the caller's code after the await.
responseOk(r) ==
  /\ inflight' = inflight \ {r}
  /\ currentBaseImagePreviewUrl' = [src |-> "response", n |-> r.id]
  /\ currentBaseImageDimensions' = newBaseDimensions(r)
  /\ IF r.add
     THEN LET pushed == _addProcessedStateToHistory(history, currentHistoryIndex,
                                                    r.params, newBaseDimensions(r))
          IN  /\ history' = pushed[1]
              /\ currentHistoryIndex' = pushed[2]
              /\ pur' = PurAfterPush(r.params, pushed[1], pushed[2])
     ELSE UNCHANGED <<historyVars, pur>>
  /\ isLoading' = FALSE
  /\ afterAwait(r)
  /\ revoked' = revokeObjectURL(r.url)
  /\ UNCHANGED viewVars
  /\ lastEvent' = IF r.add THEN "push" ELSE "replayed"
  /\ UNCHANGED <<selectedFile, trueOriginalImageDimensions, error, sliders,
                 currentAspectRatio, appliedCropRegionToOriginal,
                 timeoutId, pendingLoads, countVars, burst>>

\* _executeApiProcessing adding the entry before it tests response.ok.
responseFailPushes(r) ==
  /\ inflight' = inflight \ {r}
  /\ error' = "Image processing failed."
  /\ isLoading' = FALSE
  /\ afterAwait(r)
  /\ lastEvent' = "responseFail"
  /\ IF r.add
     THEN LET pushed == _addProcessedStateToHistory(history, currentHistoryIndex,
                                                    r.params, currentBaseImageDimensions)
          IN  /\ history' = pushed[1]
              /\ currentHistoryIndex' = pushed[2]
     ELSE UNCHANGED historyVars
  /\ UNCHANGED <<selectedFile, currentBaseImagePreviewUrl,
                 currentBaseImageDimensions, trueOriginalImageDimensions,
                 sliders, currentAspectRatio, appliedCropRegionToOriginal,
                 timeoutId, pendingLoads, countVars, revoked, viewVars, burst, pur>>

\* The fetch of request r fails or answers not ok: the catch block, the
\* finally, and the caller's code after the await.
responseFail(r) ==
  /\ inflight' = inflight \ {r}
  /\ error' = "Image processing failed."
  /\ isLoading' = FALSE
  /\ afterAwait(r)
  /\ lastEvent' = "responseFail"
  /\ UNCHANGED <<selectedFile, currentBaseImagePreviewUrl,
                 currentBaseImageDimensions, trueOriginalImageDimensions,
                 sliders, currentAspectRatio, appliedCropRegionToOriginal,
                 historyVars, timeoutId, pendingLoads, countVars, revoked, viewVars, burst, pur>>

\* ------------------------------------------------------------------------
\* The specification
\* ------------------------------------------------------------------------
\* One more handler or callback runs, within the bound.
Tick == steps < MaxSteps /\ steps' = steps + 1

Next ==
  \/ Tick /\ \E file \in Files \cup {Null} : setSelectedFile(file)
  \/ Tick /\ \E l \in pendingLoads : imgOnload(l)
  \/ Tick /\ \E l \in pendingLoads : imgOnerror(l)
  \/ Tick /\ \E l \in pendingLoads : rawPreviewOk(l)
  \/ Tick /\ \E l \in pendingLoads : rawPreviewFail(l)
  \/ Tick /\ \E name \in Sliders, value \in SliderValues : setSlider(name, value)
  \/ Tick /\ debounceTimeout
  \/ Tick /\ toggleCropMode
  \/ Tick /\ \E region \in UiRegions : setUiCropRegion(region)
  \/ Tick /\ applyCrop
  \/ Tick /\ \E effect \in NamedEffects : applyNamedEffect(effect)
  \/ Tick /\ undo
  \/ Tick /\ redo
  \/ Tick /\ \E r \in inflight : responseOk(r)
  \/ Tick /\ \E r \in inflight : responseFail(r)

Spec == Init /\ [][Next]_vars

\* ------------------------------------------------------------------------
\* A long editing session
\* ------------------------------------------------------------------------
\* The crop committed in the middle of the long session.
LongCrop == [left |-> 200, top |-> 100, width |-> 800, height |-> 400]
\* The index of the entry that crop commit pushed: halfway.
LongCropIndex == MAX_HISTORY_LENGTH \div 2

\* history[k] after the RAW file was opened and MAX_HISTORY_LENGTH - 2
\* edits were committed one after the other: the pristine entry, then one
\* brightness change per entry, the commit at LongCropIndex being the crop.
LongEntry(k) ==
  IF k = 0 THEN initialHistoryEntry(previewDims("shot.cr2"))
  ELSE [sliders |-> [defaultSliders EXCEPT
                       !.brightness = 1 + (IF k < LongCropIndex THEN k ELSE k - 1)],
        crop |-> IF k < LongCropIndex THEN NoCrop ELSE LongCrop,
        sourceImageDimensionsForNextStep |->
          IF k < LongCropIndex THEN originalDims("shot.cr2")
          ELSE [width |-> LongCrop.width, height |-> LongCrop.height],
        appliedCropForThisState |-> IF k < LongCropIndex THEN NoCrop ELSE LongCrop]

LongHistory == [k \in 1..(MAX_HISTORY_LENGTH - 1) |-> LongEntry(k - 1)]

\* Where the cursor stands: on the last entry, or (after undos whose
\* replays were answered) on the crop entry.
LongCursors == {MAX_HISTORY_LENGTH - 2, LongCropIndex}

\* The store in the middle of that session, with nothing pending.  The
\* requests of the session so far are not counted: issued counts from here.
InitLong ==
  /\ selectedFile = "shot.cr2"
  /\ currentBaseImagePreviewUrl = [src |-> "response", n |-> 0]
  /\ currentBaseImageDimensions = [width |-> LongCrop.width, height |-> LongCrop.height]
  /\ trueOriginalImageDimensions = originalDims("shot.cr2")
  /\ isLoading = FALSE
  /\ error = Null
  /\ history = LongHistory
  /\ currentHistoryIndex \in LongCursors
  /\ sliders = At(history, currentHistoryIndex).sliders
  /\ appliedCropRegionToOriginal = At(history, currentHistoryIndex).crop
  /\ isCropping = FALSE
  /\ currentAspectRatio = "freeform"
  /\ uiCropRegion = NoCrop
  /\ timeoutId = FALSE
  /\ inflight = {}
  /\ pendingLoads = {}
  /\ issued = 0
  /\ loads = 1
  /\ steps = 0
  /\ lastEvent = "init"
  /\ revoked = EmptyBag
  /\ imageRef = currentBaseImageDimensions
  /\ containerDims = DefaultContainer
  /\ zoomLevel = initialView(imageRef, containerDims).zoom
  /\ panOffset = initialView(imageRef, containerDims).pan
  /\ isPanning = FALSE
  /\ lastPanPoint = NoPoint
  /\ isSpacebarDown = FALSE
  /\ activeDragHandle = Null
  /\ dragStartCoords = NoPoint
  /\ initialCropOnDragStart = NoCrop
  /\ burst = NoBurst
  /\ pur = NoPur

TickLong == steps < MaxLongSteps /\ steps' = steps + 1

NextLong ==
  \/ TickLong /\ \E file \in Files \cup {Null} : setSelectedFile(file)
  \/ TickLong /\ \E l \in pendingLoads : imgOnload(l)
  \/ TickLong /\ \E l \in pendingLoads : imgOnerror(l)
  \/ TickLong /\ \E l \in pendingLoads : rawPreviewOk(l)
  \/ TickLong /\ \E l \in pendingLoads : rawPreviewFail(l)
  \/ TickLong /\ \E name \in Sliders, value \in SliderValues : setSlider(name, value)
  \/ TickLong /\ debounceTimeout
  \/ TickLong /\ toggleCropMode
  \/ TickLong /\ \E region \in UiRegions : setUiCropRegion(region)
  \/ TickLong /\ applyCrop
  \/ TickLong /\ \E effect \in NamedEffects : applyNamedEffect(effect)
  \/ TickLong /\ undo
  \/ TickLong /\ redo
  \/ TickLong /\ \E r \in inflight : responseOk(r)
  \/ TickLong /\ \E r \in inflight : responseFail(r)

SpecLong == InitLong /\ [][NextLong]_vars

\* The long session in executions in which every load and every request
\* succeeds: the handlers and callbacks without the failure callbacks.
NextLongOk ==
  \/ TickLong /\ \E file \in Files \cup {Null} : setSelectedFile(file)
  \/ TickLong /\ \E l \in pendingLoads : imgOnload(l)
  \/ TickLong /\ \E l \in pendingLoads : rawPreviewOk(l)
  \/ TickLong /\ \E name \in Sliders, value \in SliderValues : setSlider(name, value)
  \/ TickLong /\ debounceTimeout
  \/ TickLong /\ toggleCropMode
  \/ TickLong /\ \E region \in UiRegions : setUiCropRegion(region)
  \/ TickLong /\ applyCrop
  \/ TickLong /\ \E effect \in NamedEffects : applyNamedEffect(effect)
  \/ TickLong /\ undo
  \/ TickLong /\ redo
  \/ TickLong /\ \E r \in inflight : responseOk(r)

SpecLongOk == InitLong /\ [][NextLongOk]_vars

\* ------------------------------------------------------------------------
\* The viewport: useImageZoomPan inside ImageDisplayArea
\* ------------------------------------------------------------------------
MaxZoomSteps == 4

\* Positions of the pointer on the canvas (clientX - rect.left, clientY -
\* rect.top), inside and outside the image.
CanvasPoints ==
  { [x |-> 0, y |-> 0], [x |-> 348, y |-> 474], [x |-> 350, y |-> 474],
    [x |-> 0, y |-> 600], [x |-> 21, y |-> 600], [x |-> 1590, y |-> 600],
    [x |-> 900, y |-> 0 - 50] }

\* event.deltaY of a wheel event: zoom in by 2, zoom out by 1/2
WheelDeltas == {0 - 1000, 500}

\* The crops committed on photo.jpg before the view is looked at, and the
\* containers the canvas is laid out in.
ViewCrops ==
  { NoCrop,
    [left |-> 0, top |-> 0, width |-> 800, height |-> 348],
    [left |-> 0, top |-> 0, width |-> 40, height |-> 30],
    [left |-> 0, top |-> 0, width |-> 20, height |-> 20] }
Containers == {DefaultContainer, [width |-> 1600, height |-> 1200]}

\* The history after photo.jpg was loaded and the crop, if any, committed.
ViewHistory(crop) ==
  IF crop = NoCrop
  THEN <<initialHistoryEntry(naturalDims("photo.jpg"))>>
  ELSE <<initialHistoryEntry(naturalDims("photo.jpg")),
         [sliders |-> defaultSliders, crop |-> crop,
          sourceImageDimensionsForNextStep |->
            [width |-> crop.width, height |-> crop.height],
          appliedCropForThisState |-> crop]>>

\* photo.jpg loaded, a crop possibly committed, nothing pending;
\* ImageDisplayArea is mounted and has not loaded the displayed image yet.
StoreLoaded(crop) ==
  /\ selectedFile = "photo.jpg"
  /\ currentBaseImagePreviewUrl =
       IF crop = NoCrop THEN [src |-> "load", n |-> 1] ELSE [src |-> "response", n |-> 1]
  /\ trueOriginalImageDimensions = naturalDims("photo.jpg")
  /\ currentBaseImageDimensions =
       IF crop = NoCrop THEN naturalDims("photo.jpg")
       ELSE [width |-> crop.width, height |-> crop.height]
  /\ isLoading = FALSE
  /\ error = Null
  /\ sliders = defaultSliders
  /\ appliedCropRegionToOriginal = crop
  /\ history = ViewHistory(crop)
  /\ currentHistoryIndex = Len(history) - 1
  /\ timeoutId = FALSE
  /\ inflight = {}
  /\ pendingLoads = {}
  /\ issued = IF crop = NoCrop THEN 0 ELSE 1
  /\ loads = 1
  /\ steps = 0
  /\ lastEvent = "init"
  /\ burst = NoBurst
  /\ pur = NoPur
  /\ revoked = IF crop = NoCrop THEN EmptyBag ELSE SetToBag({[src |-> "load", n |-> 1]})

InitView ==
  /\ \E crop \in ViewCrops : StoreLoaded(crop)
  /\ isCropping = FALSE
  /\ currentAspectRatio = "freeform"
  /\ uiCropRegion = NoCrop
  /\ imageRef = NoDims
  /\ containerDims \in Containers
  /\ hooksAtDefaults

storeVars == <<sessionVars, historyVars, asyncVars, countVars, burst, pur, revoked>>

\* canvasToImageCoords, a canvas point given by its integer coordinates
canvasToImageCoords(p) ==
  [x |-> QDiv(QSub(Q(p.x), panOffset.x), zoomLevel),
   y |-> QDiv(QSub(Q(p.y), panOffset.y), zoomLevel)]

\* The guard that calculateAndSetInitialView and handleWheel share
viewReady ==
  /\ imageRef # NoDims
  /\ containerDims # NoDims
  /\ containerDims.width # 0
  /\ containerDims.height # 0

\* calculateAndSetInitialView, img being imageRef.current
calculateAndSetInitialView(img) ==
  IF /\ img # NoDims
     /\ containerDims # NoDims
     /\ containerDims.width # 0
     /\ containerDims.height # 0
     /\ img.width # 0
     /\ img.height # 0
  THEN /\ zoomLevel' = initialView(img, containerDims).zoom
       /\ panOffset' = initialView(img, containerDims).pan
  ELSE UNCHANGED <<zoomLevel, panOffset>>

\* ImageDisplayArea's effect on displayUrl: img.onload sets imageRef.current
\* and calls resetZoomPan, which is calculateAndSetInitialView.
displayImgOnload ==
  /\ currentBaseImagePreviewUrl # NoUrl
  /\ imageRef' = currentBaseImageDimensions
  /\ calculateAndSetInitialView(currentBaseImageDimensions)
  /\ lastEvent' = "calculateAndSetInitialView"
  /\ UNCHANGED <<storeVars, containerDims, isPanning, lastPanPoint, isSpacebarDown,
                 cropHandlerVars>>

\* handleWheel using the unclamped zoom for the new pan offset.
handleWheelPanUnclamped(mousePos, deltaY) ==
  /\ IF viewReady
     THEN LET before == canvasToImageCoords(mousePos)
              raw == QMul(zoomLevel,
                          QSub(Q(1), QMul(Q(deltaY), ZOOM_SENSITIVITY)))
              newZoomLevel == QMax(MIN_ZOOM, QMin(MAX_ZOOM, raw))
          IN  /\ zoomLevel' = newZoomLevel
              /\ panOffset' =
                   [x |-> QSub(Q(mousePos.x), QMul(before.x, raw)),
                    y |-> QSub(Q(mousePos.y), QMul(before.y, raw))]
     ELSE UNCHANGED <<zoomLevel, panOffset>>
  /\ lastEvent' = "handleWheel"
  /\ UNCHANGED <<storeVars, imageRef, containerDims, isPanning, lastPanPoint,
                 isSpacebarDown, cropHandlerVars>>

handleWheel(mousePos, deltaY) ==
  /\ IF viewReady
     THEN LET imageMousePosBeforeZoom == canvasToImageCoords(mousePos)
              newZoomLevel ==
                QMax(MIN_ZOOM,
                     QMin(MAX_ZOOM,
                          QMul(zoomLevel,
                               QSub(Q(1), QMul(Q(deltaY), ZOOM_SENSITIVITY)))))
          IN  /\ zoomLevel' = newZoomLevel
              /\ panOffset' =
                   [x |-> QSub(Q(mousePos.x), QMul(imageMousePosBeforeZoom.x, newZoomLevel)),
                    y |-> QSub(Q(mousePos.y), QMul(imageMousePosBeforeZoom.y, newZoomLevel))]
     ELSE UNCHANGED <<zoomLevel, panOffset>>
  /\ lastEvent' = "handleWheel"
  /\ UNCHANGED <<storeVars, imageRef, containerDims, isPanning, lastPanPoint,
                 isSpacebarDown, cropHandlerVars>>

\* The keydown and keyup listeners of the space bar
handleKeyDown ==
  /\ isSpacebarDown' = (isSpacebarDown \/ ~isCropping)
  /\ lastEvent' = "handleKeyDown"
  /\ UNCHANGED <<storeVars, imageRef, containerDims, zoomLevel, panOffset,
                 isPanning, lastPanPoint, cropHandlerVars>>

handleKeyUp ==
  /\ isSpacebarDown' = FALSE
  /\ isPanning' = FALSE
  /\ lastPanPoint' = IF isPanning THEN NoPoint ELSE lastPanPoint
  /\ lastEvent' = "handleKeyUp"
  /\ UNCHANGED <<storeVars, imageRef, containerDims, zoomLevel, panOffset,
                 cropHandlerVars>>

startPan(mousePos) ==
  /\ IF isSpacebarDown /\ ~isCropping
     THEN isPanning' = TRUE /\ lastPanPoint' = mousePos
     ELSE UNCHANGED <<isPanning, lastPanPoint>>
  /\ lastEvent' = "startPan"
  /\ UNCHANGED <<storeVars, imageRef, containerDims, zoomLevel, panOffset,
                 isSpacebarDown, cropHandlerVars>>

pan(mousePos) ==
  /\ IF isPanning /\ lastPanPoint # NoPoint
     THEN /\ panOffset' =
               [x |-> QAdd(panOffset.x, Q(mousePos.x - lastPanPoint.x)),
                y |-> QAdd(panOffset.y, Q(mousePos.y - lastPanPoint.y))]
          /\ lastPanPoint' = mousePos
     ELSE UNCHANGED <<panOffset, lastPanPoint>>
  /\ lastEvent' = "pan"
  /\ UNCHANGED <<storeVars, imageRef, containerDims, zoomLevel, isPanning,
                 isSpacebarDown, cropHandlerVars>>

endPan ==
  /\ isPanning' = FALSE
  /\ lastPanPoint' = IF isPanning THEN NoPoint ELSE lastPanPoint
  /\ lastEvent' = "endPan"
  /\ UNCHANGED <<storeVars, imageRef, containerDims, zoomLevel, panOffset,
                 isSpacebarDown, cropHandlerVars>>

TickZoom == steps < MaxZoomSteps /\ steps' = steps + 1

NextZoom ==
  \/ TickZoom /\ displayImgOnload
  \/ TickZoom /\ \E mousePos \in CanvasPoints, deltaY \in WheelDeltas :
                   handleWheel(mousePos, deltaY)
  \/ TickZoom /\ handleKeyDown
  \/ TickZoom /\ handleKeyUp
  \/ TickZoom /\ \E mousePos \in CanvasPoints : startPan(mousePos)
  \/ TickZoom /\ \E mousePos \in CanvasPoints : pan(mousePos)
  \/ TickZoom /\ endPan

SpecZoom == InitView /\ [][NextZoom]_vars

\* ------------------------------------------------------------------------
\* The crop rectangle: useImageCropHandler and setCurrentAspectRatio
\* ------------------------------------------------------------------------
MaxDragSteps == 6

AspectRatioOptions == {"freeform", "original", "1:1", "16:9", "9:16", "4:3", "3:4"}
FixedRatios == {"1:1", "16:9", "9:16", "4:3", "3:4"}
NoRatio == [none |-> "ratio"]

getAspectRatioValue(aspectRatio) ==
  CASE aspectRatio = "1:1" -> Q(1)
    [] aspectRatio = "16:9" -> Rat(16, 9)
    [] aspectRatio = "9:16" -> Rat(9, 16)
    [] aspectRatio = "4:3" -> Rat(4, 3)
    [] aspectRatio = "3:4" -> Rat(3, 4)
    [] OTHER -> NoRatio

\* String.prototype.includes on the ids of the handles: the ids are
\* camel-cased, so that "Left" and "Right" occur in the ids of the corners
\* only and "Top" and "Bottom" occur in none.
Includes(handle, part) ==
  CASE part = "Left" -> handle \in {"topLeft", "bottomLeft"}
    [] part = "Right" -> handle \in {"topRight", "bottomRight"}
    [] OTHER -> FALSE

\* Is the rectangle r within an image of dimensions dims?
Inside(r, dims) ==
  /\ r.left >= 0
  /\ r.top >= 0
  /\ r.left + r.width <= dims.width
  /\ r.top + r.height <= dims.height

\* The rectangle setCurrentAspectRatio computes from uiCropRegion
ratioRegion(aspectRatio) ==
  LET baseWidth == Q(currentBaseImageDimensions.width)
      baseHeight == Q(currentBaseImageDimensions.height)
      left == Q(uiCropRegion.left)
      top == Q(uiCropRegion.top)
      width == Q(uiCropRegion.width)
      height == Q(uiCropRegion.height)
      arValue == getAspectRatioValue(aspectRatio)
      original == aspectRatio = "original" /\ trueOriginalImageDimensions # NoDims
      trueOriginalAR == Rat(trueOriginalImageDimensions.width,
                            trueOriginalImageDimensions.height)
      tooHigh == QLt(baseHeight, QDiv(baseWidth, trueOriginalAR))
      origWidth == IF tooHigh THEN QMul(baseHeight, trueOriginalAR) ELSE baseWidth
      origHeight == IF tooHigh THEN baseHeight ELSE QDiv(baseWidth, trueOriginalAR)
      overflows(tempWidth, tempHeight) ==
        \/ QLt(baseWidth, QAdd(left, tempWidth))
        \/ QLt(baseHeight, QAdd(top, tempHeight))
      scaleRatioWidth == QDiv(QSub(baseWidth, left), width)
      scaleRatioHeight == QDiv(QSub(baseHeight, top), height)
      byHeight == QLe(QMul(QMul(width, scaleRatioHeight), arValue),
                      QSub(baseWidth, left))
      widthFirst == ~overflows(width, QDiv(width, arValue))
      heightFirst == ~overflows(QMul(height, arValue), height)
      tempWidth == IF widthFirst THEN width
                   ELSE IF heightFirst THEN QMul(height, arValue)
                   ELSE IF byHeight THEN QMul(width, scaleRatioHeight)
                   ELSE QMul(width, scaleRatioWidth)
      tempHeight == IF widthFirst THEN QDiv(width, arValue)
                    ELSE IF heightFirst THEN height
                    ELSE IF byHeight THEN QMul(height, scaleRatioHeight)
                    ELSE QMul(height, scaleRatioWidth)
      left1 == IF original THEN QDiv(QSub(baseWidth, origWidth), Q(2)) ELSE left
      top1 == IF original THEN QDiv(QSub(baseHeight, origHeight), Q(2)) ELSE top
      width1 == IF original THEN origWidth
                ELSE IF arValue # NoRatio THEN tempWidth ELSE width
      height1 == IF original THEN origHeight
                 ELSE IF arValue # NoRatio THEN tempHeight ELSE height
      clampWidth(w) == QMax(Q(MIN_CROP_SIZE), QMin(w, QSub(baseWidth, left1)))
      clampHeight(h) == QMax(Q(MIN_CROP_SIZE), QMin(h, QSub(baseHeight, top1)))
      width2 == clampWidth(width1)
      height2 == clampHeight(height1)
      currentAR == QDiv(width2, height2)
      off == /\ arValue # NoRatio
             /\ QLt(Rat(1, 100), QAbs(QSub(currentAR, arValue)))
      width3 == IF ~off THEN width2
                ELSE IF QLt(arValue, currentAR) THEN clampWidth(width2)
                ELSE clampWidth(QMul(height2, arValue))
      height3 == IF ~off THEN height2
                 ELSE IF QLt(arValue, currentAR) THEN clampHeight(QDiv(width2, arValue))
                 ELSE clampHeight(height2)
  IN  [left |-> QRound(left1), top |-> QRound(top1),
       width |-> QRound(width3), height |-> QRound(height3)]

setCurrentAspectRatio(aspectRatio) ==
  /\ currentAspectRatio' = aspectRatio
  /\ uiCropRegion' =
       IF \/ ~isCropping
          \/ uiCropRegion = NoCrop
          \/ currentBaseImageDimensions = NoDims
          \/ aspectRatio = "freeform"
       THEN uiCropRegion
       ELSE ratioRegion(aspectRatio)
  /\ lastEvent' = "setCurrentAspectRatio"
  /\ UNCHANGED <<selectedFile, currentBaseImagePreviewUrl,
                 currentBaseImageDimensions, trueOriginalImageDimensions,
                 isLoading, error, sliders, isCropping,
                 appliedCropRegionToOriginal,
                 historyVars, asyncVars, countVars, revoked, viewVars, burst, pur>>

\* getHandleAtPosition: the handle under a point of the canvas, or Null.
\* Math.hypot(dx, dy) < r is decided on the squares.
getHandleAtPosition(mousePos) ==
  IF \/ uiCropRegion = NoCrop
     \/ imageRef = NoDims
     \/ uiCropRegion.width = 0
     \/ uiCropRegion.height = 0
     \/ currentBaseImageDimensions = NoDims
  THEN Null
  ELSE
    LET img == canvasToImageCoords(mousePos)
        cropX == Q(uiCropRegion.left)
        cropY == Q(uiCropRegion.top)
        cropRight == Q(uiCropRegion.left + uiCropRegion.width)
        cropBottom == Q(uiCropRegion.top + uiCropRegion.height)
        handleTouchRadiusImageCoords == QDiv(Rat(HANDLE_SIZE * 3, 2), zoomLevel)
        buffer == handleTouchRadiusImageCoords
        near(x, y) ==
          LET dx == QSub(img.x, x)
              dy == QSub(img.y, y)
          IN  QLt(QAdd(QMul(dx, dx), QMul(dy, dy)), QMul(buffer, buffer))
        alongX == /\ QLe(QSub(cropX, buffer), img.x)
                  /\ QLe(img.x, QAdd(cropRight, buffer))
        alongY == /\ QLe(QSub(cropY, buffer), img.y)
                  /\ QLe(img.y, QAdd(cropBottom, buffer))
    IN  IF near(cropX, cropY) THEN "topLeft"
        ELSE IF near(cropRight, cropY) THEN "topRight"
        ELSE IF near(cropX, cropBottom) THEN "bottomLeft"
        ELSE IF near(cropRight, cropBottom) THEN "bottomRight"
        ELSE IF alongX /\ QLt(QAbs(QSub(img.y, cropY)), buffer) THEN "top"
        ELSE IF alongX /\ QLt(QAbs(QSub(img.y, cropBottom)), buffer) THEN "bottom"
        ELSE IF alongY /\ QLt(QAbs(QSub(img.x, cropX)), buffer) THEN "left"
        ELSE IF alongY /\ QLt(QAbs(QSub(img.x, cropRight)), buffer) THEN "right"
        ELSE IF /\ QLt(cropX, img.x) /\ QLt(img.x, cropRight)
                /\ QLt(cropY, img.y) /\ QLt(img.y, cropBottom)
        THEN "move"
        ELSE Null

\* handleCanvasMouseDown, which calls cropMouseDownHandler unless the space
\* bar is held; the event then reaches the container, whose handler is
\* startPan.
handleCanvasMouseDown(mousePos) ==
  /\ IF /\ ~isSpacebarDown
        /\ isCropping
        /\ currentBaseImageDimensions # NoDims
        /\ uiCropRegion # NoCrop
        /\ imageRef # NoDims
        /\ getHandleAtPosition(mousePos) # Null
     THEN /\ activeDragHandle' = getHandleAtPosition(mousePos)
          /\ dragStartCoords' = mousePos
          /\ initialCropOnDragStart' = uiCropRegion
     ELSE UNCHANGED cropHandlerVars
  /\ IF isSpacebarDown /\ ~isCropping
     THEN isPanning' = TRUE /\ lastPanPoint' = mousePos
     ELSE UNCHANGED <<isPanning, lastPanPoint>>
  /\ lastEvent' = "cropMouseDownHandler"
  /\ UNCHANGED <<storeVars, imageRef, containerDims, zoomLevel, panOffset,
                 isSpacebarDown>>

\* The guard of cropMouseMoveHandler
dragging ==
  /\ isCropping
  /\ activeDragHandle # Null
  /\ dragStartCoords # NoPoint
  /\ initialCropOnDragStart # NoCrop
  /\ currentBaseImageDimensions # NoDims
  /\ uiCropRegion # NoCrop
  /\ imageRef # NoDims

\* The switch of cropMouseMoveHandler on the handle with "move" resizing as
\* bottomRight does.
applyDeltaMoveResizes(handle, initial, deltaImgX, deltaImgY) ==
  [left |-> IF handle \in {"topLeft", "bottomLeft", "left"}
            THEN QAdd(Q(initial.left), deltaImgX) ELSE Q(initial.left),
   top |-> IF handle \in {"topLeft", "topRight", "top"}
           THEN QAdd(Q(initial.top), deltaImgY) ELSE Q(initial.top),
   width |-> IF handle \in {"topLeft", "bottomLeft", "left"}
             THEN QSub(Q(initial.width), deltaImgX)
             ELSE IF handle \in {"move", "topRight", "bottomRight", "right"}
             THEN QAdd(Q(initial.width), deltaImgX) ELSE Q(initial.width),
   height |-> IF handle \in {"topLeft", "topRight", "top"}
              THEN QSub(Q(initial.height), deltaImgY)
              ELSE IF handle \in {"move", "bottomLeft", "bottomRight", "bottom"}
              THEN QAdd(Q(initial.height), deltaImgY) ELSE Q(initial.height)]

\* The switch of cropMouseMoveHandler on the handle: the delta applied to
\* the rectangle captured at drag start.
applyDelta(handle, initial, deltaImgX, deltaImgY) ==
  [left |-> IF handle \in {"move", "topLeft", "bottomLeft", "left"}
            THEN QAdd(Q(initial.left), deltaImgX) ELSE Q(initial.left),
   top |-> IF handle \in {"move", "topLeft", "topRight", "top"}
           THEN QAdd(Q(initial.top), deltaImgY) ELSE Q(initial.top),
   width |-> IF handle \in {"topLeft", "bottomLeft", "left"}
             THEN QSub(Q(initial.width), deltaImgX)
             ELSE IF handle \in {"topRight", "bottomRight", "right"}
             THEN QAdd(Q(initial.width), deltaImgX) ELSE Q(initial.width),
   height |-> IF handle \in {"topLeft", "topRight", "top"}
              THEN QSub(Q(initial.height), deltaImgY)
              ELSE IF handle \in {"bottomLeft", "bottomRight", "bottom"}
              THEN QAdd(Q(initial.height), deltaImgY) ELSE Q(initial.height)]

\* The rectangle cropMouseMoveHandler publishes for a pointer position
draggedRegion(mousePos) ==
  LET startImgCoords == canvasToImageCoords(dragStartCoords)
      currentImgCoords == canvasToImageCoords(mousePos)
      deltaImgX == QSub(currentImgCoords.x, startImgCoords.x)
      deltaImgY == QSub(currentImgCoords.y, startImgCoords.y)
      handle == activeDragHandle
      initialLeft == Q(initialCropOnDragStart.left)
      initialTop == Q(initialCropOnDragStart.top)
      initialWidth == Q(initialCropOnDragStart.width)
      initialHeight == Q(initialCropOnDragStart.height)
      viewWidth == Q(currentBaseImageDimensions.width)
      viewHeight == Q(currentBaseImageDimensions.height)
      aspectRatioVal == getAspectRatioValue(currentAspectRatio)
      minCropSizeImageCoords == QDiv(Q(MIN_CROP_SIZE_ON_CANVAS), zoomLevel)
      \* the switch on the handle
      applied == applyDelta(handle, initialCropOnDragStart, deltaImgX, deltaImgY)
      left1 == applied.left
      top1 == applied.top
      width1 == applied.width
      height1 == applied.height
      \* a negative width or height is flipped
      left2 == IF QLt(width1, Q(0)) THEN QAdd(left1, width1) ELSE left1
      top2 == IF QLt(height1, Q(0)) THEN QAdd(top1, height1) ELSE top1
      width2 == QAbs(width1)
      height2 == QAbs(height1)
      \* the aspect ratio and the anchor
      locked == aspectRatioVal # NoRatio /\ handle # "move"
      initialRight == QAdd(initialLeft, initialWidth)
      initialBottom == QAdd(initialTop, initialHeight)
      fromHeight == /\ ~(Includes(handle, "Left") \/ Includes(handle, "Right"))
                    /\ (Includes(handle, "Top") \/ Includes(handle, "Bottom"))
      width3 == IF locked /\ fromHeight THEN QMul(height2, aspectRatioVal) ELSE width2
      height3 == IF locked /\ ~fromHeight THEN QDiv(width2, aspectRatioVal) ELSE height2
      left3 == IF ~locked THEN left2
               ELSE IF handle \in {"topLeft", "bottomLeft", "left"}
               THEN QSub(initialRight, width3)
               ELSE IF handle \in {"top", "bottom"}
               THEN QAdd(initialLeft, QDiv(QSub(initialWidth, width3), Q(2)))
               ELSE left2
      top3 == IF ~locked THEN top2
              ELSE IF handle \in {"topLeft", "topRight", "top"}
              THEN QSub(initialBottom, height3)
              ELSE IF handle \in {"left", "right"}
              THEN QAdd(initialTop, QDiv(QSub(initialHeight, height3), Q(2)))
              ELSE top2
      \* the minimum size, then the bounds of the view
      width4 == QMax(minCropSizeImageCoords, width3)
      height4 == QMax(minCropSizeImageCoords, height3)
      newLeft == QMax(Q(0), QMin(left3, QSub(viewWidth, width4)))
      newTop == QMax(Q(0), QMin(top3, QSub(viewHeight, height4)))
      width5 == QMin(width4, QSub(viewWidth, newLeft))
      height5 == QMin(height4, QSub(viewHeight, newTop))
      \* the final enforcement of the aspect ratio
      currentAR == QDiv(width5, height5)
      off == /\ locked
             /\ QLt(Rat(1, 100), QAbs(QSub(currentAR, aspectRatioVal)))
      moreRoomInWidth ==
        QLt(QSub(QSub(viewHeight, newTop), QDiv(width5, aspectRatioVal)),
            QSub(QSub(viewWidth, newLeft), QMul(height5, aspectRatioVal)))
      newWidth == IF ~off THEN width5
                  ELSE QMax(minCropSizeImageCoords,
                            IF moreRoomInWidth THEN QMul(height5, aspectRatioVal)
                            ELSE width5)
      newHeight == IF ~off THEN height5
                   ELSE QMax(minCropSizeImageCoords,
                             IF moreRoomInWidth THEN height5
                             ELSE QDiv(width5, aspectRatioVal))
  IN  [left |-> QRound(newLeft), top |-> QRound(newTop),
       width |-> QRound(newWidth), height |-> QRound(newHeight)]

\* handleGlobalMouseMove, listening while a pan or a drag is active: pan,
\* then cropMouseMoveHandler, which publishes through setUiCropRegion.
handleGlobalMouseMove(mousePos) ==
  /\ isPanning \/ activeDragHandle # Null
  /\ IF isPanning /\ lastPanPoint # NoPoint
     THEN /\ panOffset' =
               [x |-> QAdd(panOffset.x, Q(mousePos.x - lastPanPoint.x)),
                y |-> QAdd(panOffset.y, Q(mousePos.y - lastPanPoint.y))]
          /\ lastPanPoint' = mousePos
     ELSE UNCHANGED <<panOffset, lastPanPoint>>
  /\ IF dragging
     THEN /\ uiCropRegion' = draggedRegion(mousePos)
          /\ lastEvent' = "cropMouseMoveHandler"
     ELSE /\ UNCHANGED uiCropRegion
          /\ lastEvent' = "handleGlobalMouseMove"
  /\ UNCHANGED <<selectedFile, currentBaseImagePreviewUrl,
                 currentBaseImageDimensions, trueOriginalImageDimensions,
                 isLoading, error, sliders, isCropping, currentAspectRatio,
                 appliedCropRegionToOriginal,
                 historyVars, asyncVars, countVars, burst, pur, revoked,
                 imageRef, containerDims, zoomLevel, isPanning, isSpacebarDown,
                 cropHandlerVars>>

\* handleGlobalMouseUp with a cropMouseUpHandler that keeps the handle
handleGlobalMouseUpKeepsHandle ==
  /\ isPanning \/ activeDragHandle # Null
  /\ isPanning' = FALSE
  /\ lastPanPoint' = IF isPanning THEN NoPoint ELSE lastPanPoint
  /\ lastEvent' = "cropMouseUpHandler"
  /\ UNCHANGED <<storeVars, imageRef, containerDims, zoomLevel, panOffset,
                 isSpacebarDown, cropHandlerVars>>

\* handleGlobalMouseUp: endPan and cropMouseUpHandler
handleGlobalMouseUp ==
  /\ isPanning \/ activeDragHandle # Null
  /\ isPanning' = FALSE
  /\ lastPanPoint' = IF isPanning THEN NoPoint ELSE lastPanPoint
  /\ activeDragHandle' = Null
  /\ lastEvent' = "cropMouseUpHandler"
  /\ UNCHANGED <<storeVars, imageRef, containerDims, zoomLevel, panOffset,
                 isSpacebarDown, dragStartCoords, initialCropOnDragStart>>

\* handleCanvasMouseMove while no global listener is attached (no pan, no
\* drag): only the hovered position of the component is set, which selects
\* the cursor style; the crop handler is not called.
handleCanvasMouseMove ==
  /\ selectedFile # Null
  /\ ~(isPanning \/ activeDragHandle # Null)
  /\ lastEvent' = "handleCanvasMouseMove"
  /\ UNCHANGED <<storeVars, viewVars>>

TickDrag == steps < MaxDragSteps /\ steps' = steps + 1

NextDrag ==
  \/ TickDrag /\ displayImgOnload
  \/ TickDrag /\ toggleCropMode
  \/ TickDrag /\ \E aspectRatio \in AspectRatioOptions :
                   setCurrentAspectRatio(aspectRatio)
  \/ TickDrag /\ \E mousePos \in CanvasPoints : handleCanvasMouseDown(mousePos)
  \/ TickDrag /\ \E mousePos \in CanvasPoints : handleGlobalMouseMove(mousePos)
  \/ TickDrag /\ handleGlobalMouseUp
  \/ TickDrag /\ handleCanvasMouseMove

SpecDrag == InitView /\ [][NextDrag]_vars

\* ------------------------------------------------------------------------
\* Properties of the history stack
\* ------------------------------------------------------------------------
\* The requests answered, and the requests sent, by a step.
Answered == inflight \ inflight'
Sent == inflight' \ inflight

\* C1: a push made when the history is h and the cursor is i yields h[0..i]
\* followed by the new entry, before the trimming to MAX_HISTORY_LENGTH:
\* the entries after i are discarded, currentHistoryIndex is the new length
\* minus 1 and canRedo is false right after the push.
C1_PushTruncates ==
  [][lastEvent' = "push" =>
       \E r \in Answered :
         LET kept == SubSeq(history, 1, currentHistoryIndex + 1)
             last == history'[Len(history')]
             untrimmed == Append(kept, last)
         IN  /\ Len(history') >= 1
             /\ Len(history') <= Len(untrimmed)
             /\ last.sliders = r.params.sliders
             /\ last.crop = r.params.crop
             /\ history' = SubSeq(untrimmed,
                                  Len(untrimmed) - Len(history') + 1,
                                  Len(untrimmed))
             /\ Len(untrimmed) <= MAX_HISTORY_LENGTH => history' = untrimmed
             /\ currentHistoryIndex' = Len(history') - 1
             /\ ~(currentHistoryIndex' < Len(history') - 1)]_vars

\* A push from the crop entry of the long session has discarded the eight
\* entries after it.
C1_Witness ==
  /\ lastEvent = "push"
  /\ Len(history) = LongCropIndex + 2
  /\ At(history, LongCropIndex) = LongEntry(LongCropIndex)
  /\ currentHistoryIndex = LongCropIndex + 1

\* C2: the history never holds more than MAX_HISTORY_LENGTH entries; a
\* push that would exceed it evicts exactly the oldest entries, the others
\* keep their order, and currentHistoryIndex is at the pushed entry.
C2_HistoryBounded ==
  /\ [](Len(history) <= MAX_HISTORY_LENGTH)
  /\ [][(lastEvent' = "push" /\ currentHistoryIndex + 2 > MAX_HISTORY_LENGTH) =>
          LET evicted == currentHistoryIndex + 2 - MAX_HISTORY_LENGTH
          IN  /\ Len(history') = MAX_HISTORY_LENGTH
              /\ \A k \in 1..(MAX_HISTORY_LENGTH - 1) :
                   history'[k] = history[k + evicted]
              /\ \E r \in Answered :
                   /\ history'[MAX_HISTORY_LENGTH].sliders = r.params.sliders
                   /\ history'[MAX_HISTORY_LENGTH].crop = r.params.crop
              /\ currentHistoryIndex' = MAX_HISTORY_LENGTH - 1]_vars

\* The second push on top of the long session has evicted its pristine
\* entry: the history is full and starts with the first edit.
C2_Witness ==
  /\ lastEvent = "push"
  /\ Len(history) = MAX_HISTORY_LENGTH
  /\ history[1] = LongEntry(1)
  /\ currentHistoryIndex = MAX_HISTORY_LENGTH - 1

\* C3: in every reachable state with a non-empty history,
\* 0 <= currentHistoryIndex < history.length.
C3_CursorInRange ==
  Len(history) > 0 =>
    (0 <= currentHistoryIndex /\ currentHistoryIndex < Len(history))

\* An undo has moved the cursor back to the first of two entries.
C3_Witness ==
  /\ lastEvent = "undo"
  /\ Len(history) = 2
  /\ currentHistoryIndex = 0

\* C4: after a push, an undo and then a redo with no other change of the
\* history in between, the cursor is on an entry equal to the pushed one,
\* and the history length and currentHistoryIndex are what they were
\* before the undo.
C4_PushUndoRedo ==
  pur.phase = 3 =>
    /\ currentHistoryIndex = pur.idx
    /\ Len(history) = pur.len
    /\ At(history, currentHistoryIndex).sliders = pur.entry.sliders
    /\ At(history, currentHistoryIndex).crop = pur.entry.crop

\* A push, then an undo and a redo that both moved the cursor.
C4_Witness ==
  /\ pur.phase = 3
  /\ lastEvent = "redo"
  /\ currentHistoryIndex > 0

\* C5: undo at currentHistoryIndex <= 0 and redo at currentHistoryIndex >=
\* history.length - 1 change no session field, no history entry and no
\* cursor and send no request; canUndo holds exactly when
\* currentHistoryIndex > 0, canRedo exactly when currentHistoryIndex <
\* history.length - 1, and undo and redo move the cursor exactly then.
C5_NoopAtEnds ==
  [][/\ (undo /\ currentHistoryIndex <= 0) =>
          UNCHANGED <<sessionVars, historyVars, asyncVars, issued>>
     /\ (redo /\ currentHistoryIndex >= Len(history) - 1) =>
          UNCHANGED <<sessionVars, historyVars, asyncVars, issued>>
     /\ canUndo <=> currentHistoryIndex > 0
     /\ canRedo <=> currentHistoryIndex < Len(history) - 1
     /\ undo => (canUndo <=> currentHistoryIndex' = currentHistoryIndex - 1)
     /\ redo => (canRedo <=> currentHistoryIndex' = currentHistoryIndex + 1)]_vars

\* undo was called on the first of several entries, with a file loaded.
C5_Witness ==
  /\ lastEvent = "undoNoop"
  /\ currentHistoryIndex = 0
  /\ Len(history) > 1
  /\ selectedFile # Null

\* C6: undo and redo leave the history sequence as it is, the replay they
\* request is not to be added to the history, and the response to a replay
\* leaves the history and the cursor as they are.
C6_ReplayNeverPushes ==
  [][/\ (undo \/ redo) => (history' = history /\ \A r \in Sent : ~r.add)
     /\ \A r \in Answered :
          r.caller \in {"undo", "redo"} =>
            (history' = history /\ currentHistoryIndex' = currentHistoryIndex)]_vars

\* The replay of an undo was answered with an image and the entries after
\* the cursor are still there.
C6_Witness ==
  /\ lastEvent = "replayed"
  /\ Len(history) = Len(LongHistory)
  /\ canRedo

\* C7: right after an undo or redo that moved the cursor, the seven
\* sliders and appliedCropRegionToOriginal are those of
\* history[currentHistoryIndex], and the replay request carries exactly
\* those values with the effect applyAll (one request when a file is
\* selected).
C7_RestoredFromEntry ==
  [][((undo \/ redo) /\ currentHistoryIndex' # currentHistoryIndex) =>
       LET entry == At(history', currentHistoryIndex')
       IN  /\ sliders' = entry.sliders
           /\ appliedCropRegionToOriginal' = entry.crop
           /\ \A r \in Sent :
                /\ r.params.sliders = entry.sliders
                /\ r.params.crop = entry.crop
                /\ r.effect = "applyAll"
           /\ selectedFile # Null => Cardinality(Sent) = 1]_vars

\* An undo from the crop entry has restored the session to the entry
\* before the crop and sent its replay.
C7_Witness ==
  /\ lastEvent = "undo"
  /\ currentHistoryIndex = LongCropIndex - 1
  /\ appliedCropRegionToOriginal = NoCrop
  /\ \E r \in inflight : r.caller = "undo" /\ r.effect = "applyAll"

\* ------------------------------------------------------------------------
\* Properties of the debounced trigger and of the responses
\* ------------------------------------------------------------------------
\* C8: a slider change sends no request and pushes nothing, it (re)starts
\* the one timer; when the timer fires with a file selected and crop mode
\* off, exactly one applyAll request is sent for all the changes it
\* coalesced, carrying the latest sliders; its success pushes exactly one
\* entry.
C8_OneRequestPerBurst ==
  [][/\ (\E name \in Sliders, value \in SliderValues : setSlider(name, value)) =>
          /\ issued' = issued
          /\ inflight' = inflight
          /\ UNCHANGED historyVars
          /\ timeoutId'
     /\ (timeoutId /\ ~timeoutId' /\ ~isCropping /\ selectedFile # Null) =>
          /\ issued' = issued + 1
          /\ Cardinality(Sent) = 1
          /\ \A r \in Sent :
               /\ r.effect = "applyAll"
               /\ r.add
               /\ r.params.sliders = sliders
               /\ r.params.crop = appliedCropRegionToOriginal
               /\ r.coalesced = burst.n
               /\ r.coalesced >= 1
          /\ sliders' = sliders
          /\ UNCHANGED historyVars
     /\ \A r \in Answered :
          (r.caller = "debounce" /\ responseOk(r)) =>
            LET len == Len(history')
            IN  /\ len = IF currentHistoryIndex + 2 > MAX_HISTORY_LENGTH
                         THEN MAX_HISTORY_LENGTH ELSE currentHistoryIndex + 2
                /\ \A k \in 1..(len - 1) :
                     history'[k] = history[k + (currentHistoryIndex + 2 - len)]
                /\ history'[len].sliders = r.params.sliders
                /\ history'[len].crop = r.params.crop
                /\ currentHistoryIndex' = len - 1]_vars

\* Two slider changes on top of the long session were answered by the one
\* request sent so far, and one entry with both changes was pushed.
C8_Witness ==
  /\ lastEvent = "push"
  /\ issued = 1
  /\ inflight = {}
  /\ sliders.contrast # LongEntry(Len(LongHistory) - 1).sliders.contrast
  /\ sliders.exposure # LongEntry(Len(LongHistory) - 1).sliders.exposure
  /\ Len(history) = Len(LongHistory) + 1
  /\ At(history, currentHistoryIndex).sliders = sliders

\* C9 as amended: the debounced trigger is suppressed by the state at the
\* time the delay elapses: a slider change sends nothing by itself, and a
\* timer that fires while isCropping is true or no file is selected sends
\* no request and pushes nothing.
C9_SuppressedAtFireTime ==
  [][/\ ((\E name \in Sliders, value \in SliderValues : setSlider(name, value))
           /\ (isCropping \/ selectedFile = Null)) =>
          (issued' = issued /\ inflight' = inflight /\ UNCHANGED historyVars)
     /\ (timeoutId /\ ~timeoutId' /\ (isCropping \/ selectedFile = Null)) =>
          /\ issued' = issued
          /\ inflight' = inflight
          /\ UNCHANGED historyVars]_vars

\* The timer of a slider change fired in crop mode: the change is in the
\* session, nothing was sent.
C9_Witness ==
  /\ lastEvent = "timeoutSuppressed"
  /\ isCropping
  /\ sliders # At(history, currentHistoryIndex).sliders
  /\ issued = 0

\* C9 as stated: when every slider change the timer coalesced was made
\* while isCropping was true or no file was selected, the timer sends no
\* request, whatever the state is when it fires.
C9_SuppressedAtChangeTime ==
  [][(timeoutId /\ ~timeoutId' /\ burst.suppressed) => issued' = issued]_vars

\* C10: with several requests in flight, the response to a request that is
\* not the one issued last is discarded: the image, its dimensions and the
\* history stay as they are.
C10_StaleResponseDiscarded ==
  [][\A r \in Answered :
       (Cardinality(inflight) >= 2 /\ r.file = selectedFile /\ r.id # issued) =>
         /\ currentBaseImagePreviewUrl' = currentBaseImagePreviewUrl
         /\ currentBaseImageDimensions' = currentBaseImageDimensions
         /\ UNCHANGED historyVars]_vars

\* ------------------------------------------------------------------------
\* Properties of responses to superseded and failed requests
\* ------------------------------------------------------------------------
\* C11: when the file was replaced or closed while a request for the
\* previous file was in flight, the response to that request leaves the
\* image, its dimensions and the history of the new session as they are.
C11_ReplacedFileResponseIgnored ==
  [][\A r \in Answered :
       r.file # selectedFile =>
         /\ currentBaseImagePreviewUrl' = currentBaseImagePreviewUrl
         /\ currentBaseImageDimensions' = currentBaseImageDimensions
         /\ UNCHANGED historyVars]_vars

\* C12: a request that fails leaves the history and currentHistoryIndex
\* as they were when its response arrived, and sets an error message.
C12_FailureKeepsHistory ==
  [][\A r \in Answered :
       responseFail(r) => (UNCHANGED historyVars /\ error' # Null)]_vars

\* The request of a slider change on top of the long session has failed:
\* the session holds the change, the history is the one of before.
C12_Witness ==
  /\ lastEvent = "responseFail"
  /\ error # Null
  /\ history = LongHistory
  /\ issued = 1
  /\ sliders # At(history, currentHistoryIndex).sliders

\* C13: when the request of a crop commit fails (it being the only request
\* in flight, for the file still selected), appliedCropRegionToOriginal
\* and currentBaseImageDimensions are what they were before the commit.
C13_FailedCropRolledBack ==
  [][\A r \in Answered :
       (/\ r.caller = "applyCrop"
        /\ responseFail(r)
        /\ inflight = {r}
        /\ r.id = issued
        /\ r.file = selectedFile) =>
         /\ appliedCropRegionToOriginal' = r.cropBefore
         /\ currentBaseImageDimensions' = currentBaseImageDimensions]_vars

\* ------------------------------------------------------------------------
\* Properties of the crop commit
\* ------------------------------------------------------------------------
\* C14: applyCrop with the UI region, the base dimensions, the true
\* original dimensions or the file missing, or with a selection that is
\* left narrower or lower than MIN_CROP_SIZE by the clamping to the view,
\* sets an error, sends no request and leaves history, currentHistoryIndex
\* and appliedCropRegionToOriginal as they are.
C14_InvalidCropRejected ==
  [][(/\ applyCrop
      /\ \/ uiCropRegion = NoCrop
         \/ currentBaseImageDimensions = NoDims
         \/ trueOriginalImageDimensions = NoDims
         \/ selectedFile = Null
         \/ currentBaseImageDimensions.width - Max(0, uiCropRegion.left) < MIN_CROP_SIZE
         \/ currentBaseImageDimensions.height - Max(0, uiCropRegion.top) < MIN_CROP_SIZE) =>
       /\ error' # Null
       /\ issued' = issued
       /\ inflight' = inflight
       /\ UNCHANGED historyVars
       /\ appliedCropRegionToOriginal' = appliedCropRegionToOriginal]_vars

\* applyCrop has refused a selection 15 wide at the right edge of the view.
C14_Witness ==
  /\ lastEvent = "applyCropError"
  /\ error = "Crop dimensions selected on the preview are too small."
  /\ isCropping
  /\ uiCropRegion # NoCrop
  /\ uiCropRegion.width < MIN_CROP_SIZE
  /\ issued = 0
  /\ history = LongHistory

\* ------------------------------------------------------------------------
\* Properties of file loading
\* ------------------------------------------------------------------------
\* C15 as amended: when the RAW preview fails, an error is set, loading is
\* cleared and no image and no dimensions are set, the file stays selected
\* and the history is left as it is; while the dimensions are missing a
\* crop commit sends no request.
C15_RawFailureKeepsFile ==
  [][/\ (\E l \in pendingLoads : rawPreviewFail(l)) =>
          /\ error' # Null
          /\ ~isLoading'
          /\ currentBaseImagePreviewUrl' = NoUrl
          /\ currentBaseImageDimensions' = NoDims
          /\ trueOriginalImageDimensions' = NoDims
          /\ selectedFile' = selectedFile
          /\ UNCHANGED historyVars
          /\ issued' = issued
     /\ (applyCrop /\ trueOriginalImageDimensions = NoDims) =>
          (issued' = issued /\ UNCHANGED historyVars)]_vars

\* The RAW preview has failed, the file is still selected, and a slider
\* change made afterwards has sent its request.
C15_Witness ==
  /\ selectedFile # Null
  /\ isRawFile(selectedFile)
  /\ pendingLoads = {}
  /\ loads = 1
  /\ trueOriginalImageDimensions = NoDims
  /\ currentBaseImagePreviewUrl = NoUrl
  /\ \E r \in inflight : r.caller = "debounce" /\ r.file = selectedFile

\* C15 as stated: when the RAW preview fails no file is selected and no
\* image or dimensions are set, and from then on, until a file is loaded,
\* no handler sends a request or changes the history.
C15_RawFailureUnloads ==
  [][/\ (\E l \in pendingLoads : rawPreviewFail(l)) =>
          /\ selectedFile' = Null
          /\ currentBaseImagePreviewUrl' = NoUrl
          /\ currentBaseImageDimensions' = NoDims
     /\ (/\ trueOriginalImageDimensions = NoDims
         /\ pendingLoads = {}
         /\ loads' = loads) =>
          (issued' = issued /\ UNCHANGED historyVars)]_vars

\* x is num / den rounded to the nearest integer (den > 0, a tie up).
RoundsTo(x, num, den) ==
  2 * x * den - den <= 2 * num /\ 2 * num < 2 * x * den + den

\* The selection is a rectangle of at least MIN_CROP_SIZE inside the view,
\* and everything applyCrop needs is there.
SelectionValid ==
  /\ uiCropRegion # NoCrop
  /\ currentBaseImageDimensions # NoDims
  /\ trueOriginalImageDimensions # NoDims
  /\ selectedFile # Null
  /\ uiCropRegion.left >= 0
  /\ uiCropRegion.top >= 0
  /\ uiCropRegion.width >= MIN_CROP_SIZE
  /\ uiCropRegion.height >= MIN_CROP_SIZE
  /\ uiCropRegion.left + uiCropRegion.width <= currentBaseImageDimensions.width
  /\ uiCropRegion.top + uiCropRegion.height <= currentBaseImageDimensions.height

C18_CropWithinOriginal ==
  [][applyCrop =>
       \A r \in Sent :
         LET c == r.params.crop
             orig == trueOriginalImageDimensions
         IN  /\ c = appliedCropRegionToOriginal'
             /\ c.left >= 0
             /\ c.top >= 0
             /\ c.width >= MIN_CROP_SIZE
             /\ c.height >= MIN_CROP_SIZE
             /\ c.left + c.width <= orig.width
             /\ c.top + c.height <= orig.height]_vars

\* C19: when a crop request succeeds, the committed crop is the rectangle
\* that was sent, the base image dimensions are that rectangle's width
\* and height, crop mode is left, uiCropRegion is cleared, and exactly one
\* history entry carrying that crop is pushed.
C19_CropSuccessCommits ==
  [][\A r \in Answered :
       (r.caller = "applyCrop" /\ responseOk(r)) =>
         /\ appliedCropRegionToOriginal' = r.params.crop
         /\ currentBaseImageDimensions' =
              [width |-> r.params.crop.width, height |-> r.params.crop.height]
         /\ ~isCropping'
         /\ uiCropRegion' = NoCrop
         /\ currentHistoryIndex' = Len(history') - 1
         /\ Len(history') = Min(currentHistoryIndex + 2, MAX_HISTORY_LENGTH)
         /\ At(history', currentHistoryIndex').crop = r.params.crop]_vars

\* C20: when the load of a new file succeeds, the session is at its
\* defaults (default sliders, no committed crop, not cropping, no
\* uiCropRegion, ratio freeform) and the history is exactly the pristine
\* entry with the cursor at 0, whatever the session and history were
\* before.
C20_LoadResetsSession ==
  [][(\E l \in pendingLoads : imgOnload(l) \/ rawPreviewOk(l)) =>
       /\ sliders' = defaultSliders
       /\ appliedCropRegionToOriginal' = NoCrop
       /\ ~isCropping'
       /\ uiCropRegion' = NoCrop
       /\ currentAspectRatio' = "freeform"
       /\ history' = <<initialHistoryEntry(currentBaseImageDimensions')>>
       /\ currentHistoryIndex' = 0]_vars

\* C21: a named effect sends the committed crop unchanged in its request
\* and leaves the committed crop as it is, when it is issued and when it
\* is answered; when it succeeds exactly one history entry carrying the
\* crop that was sent is pushed.
C21_EffectKeepsCrop ==
  [][/\ (\E effect \in NamedEffects : applyNamedEffect(effect)) =>
          /\ appliedCropRegionToOriginal' = appliedCropRegionToOriginal
          /\ selectedFile # Null => Cardinality(Sent) = 1
          /\ \A r \in Sent : /\ r.params.crop = appliedCropRegionToOriginal
                             /\ r.effect \in NamedEffects
     /\ \A r \in Answered :
          r.caller = "applyNamedEffect" =>
            /\ appliedCropRegionToOriginal' = appliedCropRegionToOriginal
            /\ responseOk(r) =>
                 /\ currentHistoryIndex' = Len(history') - 1
                 /\ Len(history') = Min(currentHistoryIndex + 2, MAX_HISTORY_LENGTH)
                 /\ At(history', currentHistoryIndex').crop = r.params.crop
                 /\ At(history', currentHistoryIndex').appliedCropForThisState = r.params.crop]_vars

\* A named effect was applied to the cropped image and answered: its
\* entry, pushed after the crop entry, carries the committed crop.
C21_Witness ==
  /\ steps = 2
  /\ lastEvent = "push"
  /\ inflight = {}
  /\ issued = 1
  /\ appliedCropRegionToOriginal = LongCrop
  /\ At(history, currentHistoryIndex).crop = LongCrop
  /\ currentHistoryIndex = LongCropIndex + 1

C23_HandlesReleasedOnce ==
  [][/\ \A url \in BagToSet(revoked') : CopiesIn(url, revoked') = 1
     /\ (/\ isObjectUrl(currentBaseImagePreviewUrl)
         /\ currentBaseImagePreviewUrl' # currentBaseImagePreviewUrl) =>
          BagIn(currentBaseImagePreviewUrl, revoked')
     /\ ~BagIn(currentBaseImagePreviewUrl', revoked')]_vars

\* C30: after an undo that moved the cursor, canRedo stays true until the
\* user edits again: the late response of a request issued before the
\* undo, arriving while nothing was changed or requested after the undo
\* (the undo's replay is the last request, no timer is pending, the
\* session still shows the restored entry), neither discards the redo
\* branch nor pushes an entry.
C30_RedoSurvivesLateResponse ==
  [][\A r \in Answered :
       (/\ r.add
        /\ r.file = selectedFile
        /\ loads = 1
        /\ ~timeoutId
        /\ canRedo
        /\ sliders = At(history, currentHistoryIndex).sliders
        /\ appliedCropRegionToOriginal = At(history, currentHistoryIndex).crop
        /\ \E u \in inflight : u.caller = "undo" /\ u.id = issued /\ r.id < u.id) =>
         (canRedo' /\ UNCHANGED historyVars)]_vars

\* C24: in every state of the viewport MIN_ZOOM <= zoomLevel <= MAX_ZOOM,
\* after any sequence of fits to the container and wheel zooms, for every
\* image and container size.
C24_ZoomInRange ==
  QLe(MIN_ZOOM, zoomLevel) /\ QLe(zoomLevel, MAX_ZOOM)

C27_DragStaysInside ==
  lastEvent = "cropMouseMoveHandler"
    => Inside(uiCropRegion, currentBaseImageDimensions)

\* C26: a resize drag under the ratio 1:1 always publishes a square that lies
\* inside the base image.
C26_SquareUnderLock ==
  (/\ lastEvent = "cropMouseMoveHandler"
   /\ currentAspectRatio = "1:1"
   /\ activeDragHandle # "move")
    => /\ uiCropRegion.width = uiCropRegion.height
       /\ Inside(uiCropRegion, currentBaseImageDimensions)

\* Is the integer a within half a unit of the fraction q?
Nearest(a, q) == QLe(QAbs(QSub(Q(a), q)), Rat(1, 2))

\* Is width / height the ratio ar up to the rounding of one of the sides?
RatioUpToRounding(r, ar) ==
  \/ Nearest(r.height, QDiv(Q(r.width), ar))
  \/ Nearest(r.width, QMul(Q(r.height), ar))

\* C28: choosing a named fixed ratio while cropping with no drag in progress,
\* from a rectangle inside the base image, keeps left and top, gives a
\* rectangle inside the base image whose width / height is the ratio up to
\* rounding, and keeps the width when the height derived from it fits,
\* otherwise keeps the height and derives the width.
C28_FixedRatioInPlace ==
  [][(/\ isCropping
      /\ uiCropRegion # NoCrop
      /\ Inside(uiCropRegion, currentBaseImageDimensions)
      /\ activeDragHandle = Null
      /\ lastEvent' = "setCurrentAspectRatio"
      /\ currentAspectRatio' \in FixedRatios)
       => LET ar == getAspectRatioValue(currentAspectRatio')
              derivedHeight == QDiv(Q(uiCropRegion.width), ar)
              fits == QLe(QAdd(Q(uiCropRegion.top), derivedHeight),
                          Q(currentBaseImageDimensions.height))
          IN  /\ uiCropRegion'.left = uiCropRegion.left
              /\ uiCropRegion'.top = uiCropRegion.top
              /\ Inside(uiCropRegion', currentBaseImageDimensions)
              /\ RatioUpToRounding(uiCropRegion', ar)
              /\ IF fits
                 THEN /\ uiCropRegion'.width = uiCropRegion.width
                      /\ Nearest(uiCropRegion'.height, derivedHeight)
                 ELSE /\ uiCropRegion'.height = uiCropRegion.height
                      /\ Nearest(uiCropRegion'.width,
                                 QMul(Q(uiCropRegion.height), ar))]_vars

\* C29: choosing the ratio "original" while cropping gives a rectangle inside
\* the base image whose width / height is that of the true original image up
\* to rounding, whatever the shape of the base image.
C29_OriginalRatio ==
  [][(/\ isCropping
      /\ uiCropRegion # NoCrop
      /\ trueOriginalImageDimensions # NoDims
      /\ lastEvent' = "setCurrentAspectRatio"
      /\ currentAspectRatio' = "original")
       => /\ Inside(uiCropRegion', currentBaseImageDimensions)
          /\ RatioUpToRounding(uiCropRegion',
                               Rat(trueOriginalImageDimensions.width,
                                   trueOriginalImageDimensions.height))]_vars

\* C31: when every request succeeds, whenever no request is in flight and no
\* debounce timer is pending, the seven slider values and the committed crop
\* of the session are those of history[currentHistoryIndex].
C31_SessionIsCursorEntry ==
  (/\ inflight = {}
   /\ ~timeoutId
   /\ currentHistoryIndex >= 0
   /\ currentHistoryIndex < Len(history))
    => /\ sliders = At(history, currentHistoryIndex).sliders
       /\ appliedCropRegionToOriginal = At(history, currentHistoryIndex).crop

\* C32: isLoading is true in every state in which a processing request is in
\* flight, also when two requests overlap and one of them has completed.
C32_LoadingWhileInFlight == inflight # {} => isLoading

\* C33: a debounce timer that was armed before the latest file was selected
\* has no effect on that file's session: when it fires, no request is issued
\* and the session and the history stay as they are.
C33_StaleTimerHasNoEffect ==
  [][(/\ timeoutId
      /\ ~timeoutId'
      /\ burst.loads < loads)
       => UNCHANGED <<sessionVars, historyVars, inflight, issued>>]_vars

\* The edges of a rectangle
RightOf(r) == r.left + r.width
BottomOf(r) == r.top + r.height

\* Has the pointer at mousePos not crossed the edge opposite to the handle?
NotCrossed(handle, mousePos) ==
  LET p == canvasToImageCoords(mousePos)
      i == initialCropOnDragStart
  IN  CASE handle = "left" -> QLe(p.x, Q(RightOf(i)))
        [] handle = "right" -> QLe(Q(i.left), p.x)
        [] handle = "top" -> QLe(p.y, Q(BottomOf(i)))
        [] handle = "bottom" -> QLe(Q(i.top), p.y)

\* Are all edges of r but the one the handle drags those of the rectangle i?
OtherEdgesKept(handle, r, i) ==
  CASE handle = "left" ->
         RightOf(r) = RightOf(i) /\ r.top = i.top /\ r.height = i.height
    [] handle = "right" ->
         r.left = i.left /\ r.top = i.top /\ r.height = i.height
    [] handle = "top" ->
         BottomOf(r) = BottomOf(i) /\ r.left = i.left /\ r.width = i.width
    [] handle = "bottom" ->
         r.top = i.top /\ r.left = i.left /\ r.width = i.width

\* C34: in freeform mode a drag of the left, right, top or bottom handle moves
\* only that edge: while the pointer has not crossed the opposite edge, the
\* three other edges of the published rectangle are those of the rectangle
\* captured at drag start, wherever the pointer is.
C34_EdgeDragMovesOneEdge ==
  [][\A mousePos \in CanvasPoints :
       (/\ dragging
        /\ currentAspectRatio = "freeform"
        /\ activeDragHandle \in {"left", "right", "top", "bottom"}
        /\ lastEvent' = "cropMouseMoveHandler"
        /\ uiCropRegion' = draggedRegion(mousePos)
        /\ NotCrossed(activeDragHandle, mousePos))
         => OtherEdgesKept(activeDragHandle, uiCropRegion',
                           initialCropOnDragStart)]_vars

\* C35: under a fixed aspect ratio a drag of the topLeft handle keeps the
\* opposite corner: the right and the bottom edge of every published rectangle
\* are those of the rectangle captured at drag start, for every pointer
\* position, also where the minimum size or the image bounds clamp.
C35_CornerDragKeepsOpposite ==
  (/\ lastEvent = "cropMouseMoveHandler"
   /\ currentAspectRatio \in FixedRatios
   /\ activeDragHandle = "topLeft")
    => /\ RightOf(uiCropRegion) = RightOf(initialCropOnDragStart)
       /\ BottomOf(uiCropRegion) = BottomOf(initialCropOnDragStart)

\* The left or top of a moved rectangle: the initial one translated by the
\* delta, clamped so that the extent stays inside the view, rounded.
Translated(initial, delta, extent, view) ==
  QRound(QMax(Q(0), QMin(QAdd(Q(initial), delta), Q(view - extent))))

\* The rectangle captured at drag start lies inside the base image and is at
\* least the minimum size at the current zoom.
StartsValid ==
  /\ Inside(initialCropOnDragStart, currentBaseImageDimensions)
  /\ QLe(QDiv(Q(MIN_CROP_SIZE_ON_CANVAS), zoomLevel), Q(initialCropOnDragStart.width))
  /\ QLe(QDiv(Q(MIN_CROP_SIZE_ON_CANVAS), zoomLevel), Q(initialCropOnDragStart.height))

\* C36: a drag with the "move" handle never resizes: starting from a
\* rectangle inside the base image and at least the minimum size, every
\* published rectangle has the initial width and height, and its left and
\* top are the initial ones translated by the image-space pointer delta and
\* clamped so that the rectangle stays inside the base image (published in
\* whole pixels).
C36_MoveNeverResizes ==
  [][\A mousePos \in CanvasPoints :
       (/\ dragging
        /\ activeDragHandle = "move"
        /\ StartsValid
        /\ lastEvent' = "cropMouseMoveHandler"
        /\ uiCropRegion' = draggedRegion(mousePos))
         => LET i == initialCropOnDragStart
                d == currentBaseImageDimensions
                from == canvasToImageCoords(dragStartCoords)
                to == canvasToImageCoords(mousePos)
            IN  /\ uiCropRegion'.width = i.width
                /\ uiCropRegion'.height = i.height
                /\ uiCropRegion'.left =
                     Translated(i.left, QSub(to.x, from.x), i.width, d.width)
                /\ uiCropRegion'.top =
                     Translated(i.top, QSub(to.y, from.y), i.height, d.height)
                /\ Inside(uiCropRegion', d)]_vars

\* C36 witness: a move drag has published a rectangle away from where it
\* started.
C36_Witness_Moved ==
  /\ lastEvent = "cropMouseMoveHandler"
  /\ activeDragHandle = "move"
  /\ StartsValid
  /\ uiCropRegion.left # initialCropOnDragStart.left
  /\ uiCropRegion.width = initialCropOnDragStart.width

\* The steps that are pointer events, and those that are pointer moves
PointerEvents ==
  {"cropMouseDownHandler", "cropMouseMoveHandler", "cropMouseUpHandler",
   "handleGlobalMouseMove", "handleCanvasMouseMove"}
PointerMoves ==
  {"cropMouseMoveHandler", "handleGlobalMouseMove", "handleCanvasMouseMove"}

\* C37: the crop drag state machine. A drag leaves Idle (no active handle)
\* only on a pointer-down that hits a handle or the interior while crop mode
\* is active and a uiCropRegion exists; pointer-up returns it to Idle; a
\* pointer event publishes a new uiCropRegion only as a move while dragging,
\* so in Idle and whenever crop mode is off a pointer move leaves
\* uiCropRegion unchanged.
C37_DragStateMachine ==
  [][/\ (activeDragHandle = Null /\ activeDragHandle' # Null)
          => /\ lastEvent' = "cropMouseDownHandler"
             /\ isCropping
             /\ uiCropRegion # NoCrop
             /\ \E mousePos \in CanvasPoints :
                  /\ dragStartCoords' = mousePos
                  /\ activeDragHandle' = getHandleAtPosition(mousePos)
     /\ lastEvent' = "cropMouseUpHandler" => activeDragHandle' = Null
     /\ (lastEvent' \in PointerEvents /\ uiCropRegion' # uiCropRegion)
          => /\ lastEvent' \in PointerMoves
             /\ activeDragHandle # Null
             /\ isCropping
     /\ (/\ lastEvent' \in PointerMoves
         /\ (activeDragHandle = Null \/ ~isCropping))
          => uiCropRegion' = uiCropRegion]_vars

\* C37 witness: a drag that was started on a handle, published a rectangle
\* and was ended by the pointer-up, after which a pointer move in Idle left
\* the published rectangle in place.
C37_Witness_BackToIdle ==
  /\ lastEvent = "handleCanvasMouseMove"
  /\ activeDragHandle = Null
  /\ initialCropOnDragStart # NoCrop
  /\ uiCropRegion # NoCrop
  /\ uiCropRegion # initialCropOnDragStart

\* The corners of uiCropRegion, in image coordinates
Corners ==
  [topLeft |-> [x |-> uiCropRegion.left, y |-> uiCropRegion.top],
   topRight |-> [x |-> uiCropRegion.left + uiCropRegion.width,
                 y |-> uiCropRegion.top],
   bottomLeft |-> [x |-> uiCropRegion.left,
                   y |-> uiCropRegion.top + uiCropRegion.height],
   bottomRight |-> [x |-> uiCropRegion.left + uiCropRegion.width,
                    y |-> uiCropRegion.top + uiCropRegion.height]]

\* The point of the canvas where a point of the image is drawn
OnScreen(pt) ==
  [x |-> QAdd(panOffset.x, QMul(Q(pt.x), zoomLevel)),
   y |-> QAdd(panOffset.y, QMul(Q(pt.y), zoomLevel))]

\* The on-screen distance from a canvas point to a corner is below
\* 1.5 x HANDLE_SIZE pixels.
WithinTolerance(mousePos, corner) ==
  LET dx == QSub(Q(mousePos.x), OnScreen(Corners[corner]).x)
      dy == QSub(Q(mousePos.y), OnScreen(Corners[corner]).y)
  IN  QLt(QAdd(QMul(dx, dx), QMul(dy, dy)),
          Rat(9 * HANDLE_SIZE * HANDLE_SIZE, 4))

\* A canvas point lies strictly inside the rectangle
StrictlyInside(mousePos) ==
  /\ QLt(OnScreen(Corners.topLeft).x, Q(mousePos.x))
  /\ QLt(Q(mousePos.x), OnScreen(Corners.bottomRight).x)
  /\ QLt(OnScreen(Corners.topLeft).y, Q(mousePos.y))
  /\ QLt(Q(mousePos.y), OnScreen(Corners.bottomRight).y)

HitTestable ==
  /\ uiCropRegion # NoCrop
  /\ imageRef # NoDims
  /\ currentBaseImageDimensions # NoDims
  /\ uiCropRegion.width # 0
  /\ uiCropRegion.height # 0

\* C38: the tolerance of the hit test is constant in screen pixels: at every
\* zoom level a canvas point hits a corner exactly when its on-screen
\* distance to that corner is below 1.5 x HANDLE_SIZE pixels, also when it
\* is within the tolerance of an edge; an edge is returned before "move",
\* "move" only strictly inside the rectangle, and null otherwise.
C38_HitTestInScreenPixels ==
  HitTestable =>
    \A mousePos \in CanvasPoints :
      LET hit == getHandleAtPosition(mousePos)
      IN  /\ \A corner \in DOMAIN Corners :
               hit = corner <=> WithinTolerance(mousePos, corner)
          /\ hit = "move" => StrictlyInside(mousePos)
          /\ (/\ hit \notin DOMAIN Corners
              /\ hit \notin {"top", "bottom", "left", "right"}
              /\ StrictlyInside(mousePos)) => hit = "move"

\* Two fractions are the same number
QEq(a, b) == a.n * b.d = b.n * a.d

\* C39: calculateAndSetInitialView fits the image to the container: the
\* rendered image (image size x zoom) is inscribed in the container, equal to
\* it on one axis and not larger on the other, and centred, panOffset being
\* (container size - rendered size) / 2 on each axis, for every non-empty
\* image and container.
C39_FitToContainer ==
  (/\ lastEvent = "calculateAndSetInitialView"
   /\ viewReady
   /\ imageRef.width # 0
   /\ imageRef.height # 0)
    => LET renderWidth == QMul(Q(imageRef.width), zoomLevel)
           renderHeight == QMul(Q(imageRef.height), zoomLevel)
           containerWidth == Q(containerDims.width)
           containerHeight == Q(containerDims.height)
       IN  /\ QLe(renderWidth, containerWidth)
           /\ QLe(renderHeight, containerHeight)
           /\ QEq(renderWidth, containerWidth) \/ QEq(renderHeight, containerHeight)
           /\ QEq(QAdd(panOffset.x, panOffset.x), QSub(containerWidth, renderWidth))
           /\ QEq(QAdd(panOffset.y, panOffset.y), QSub(containerHeight, renderHeight))

\* C39 witness: an image wider than the container was fitted to its width and
\* centred between bars above and below.
C39_Witness_Letterboxed ==
  /\ lastEvent = "calculateAndSetInitialView"
  /\ viewReady
  /\ QEq(QMul(Q(imageRef.width), zoomLevel), Q(containerDims.width))
  /\ QLt(QMul(Q(imageRef.height), zoomLevel), Q(containerDims.height))
  /\ QLt(Q(0), panOffset.y)
  /\ zoomLevel # Q(1)

====
